---- MODULE Spec2Model ----
(***************************************************************************)
(* Session execution-and-analysis engine of the interview platform.        *)
(*                                                                         *)
(*   SpecCompare : CodeExecutionService.compareOutputs as a pure function  *)
(*   SpecExec    : CodeExecutionService (executeTests, executeSingleTest,  *)
(*                 executeJavaScript / executePython / executeCpp) with    *)
(*                 its child processes, temporary files and the run_tests  *)
(*                 socket handler of a connection without a session        *)
(*   SpecClient  : the hint / cooldown controller of CandidateCoding.tsx   *)
(*   SpecServer  : the socket handlers that own a session                  *)
(*   SpecCandidate : the handlers of the events a CandidateCoding page     *)
(*                 sends                                                   *)
(*   SpecAnalyze : CodeAnalysisService.analyzeCodeInRealTime and the       *)
(*                 length guard of the code_change handler                 *)
(*   SpecExecPair : the executors under two run_tests events at once       *)
(*   SpecRuns    : the run_tests handler of a started session              *)
(*   SpecMetrics : CodeAnalysisService.estimateBigO,                       *)
(*                 calculateCyclomaticComplexity and                       *)
(*                 calculateMaintainabilityIndex as pure functions         *)
(*                                                                         *)
(* Strings are sequences of one-character strings, so that trimming,       *)
(* case folding, whitespace collapsing, JSON.stringify, JSON.parse and     *)
(* String() are computed character by character as the code does.          *)
(***************************************************************************)
EXTENDS Integers, Sequences, FiniteSets, TLC

VARIABLES
    cmpActual,      \* compareOutputs: the actual output (a string)
    cmpExpected,    \* compareOutputs: the expected output (a string)
    cmpDone,        \* compareOutputs has been applied
    cmpResult       \* its return value

cmpVars == <<cmpActual, cmpExpected, cmpDone, cmpResult>>

VARIABLES
    now,            \* Date.now() of the server process
    files,          \* the paths that exist in the temporary directory
    runs,           \* per run_tests event: the handler and its executeTests call
    procs,          \* the child processes whose events are still to come
    crashed         \* an exception left an event handler uncaught

execVars == <<now, files, runs, procs, crashed>>

VARIABLES
    clk,            \* the browser's clock, in seconds since the component mounted
    ui,             \* the React state of CandidateCoding
    debounce,       \* the pending analysisTimeout of the code-change effect
    monitor,        \* the monitoring interval and what its closure captured
    stuck,          \* the checkStuck interval and what its closure captured
    timeouts,       \* pending setTimeout callbacks scheduled by a dispatch
    speech,         \* a startAudioRecording call awaiting speechToText
    lastAttempt,    \* the latest attempt to dispatch an automated AI request
    acts,           \* user actions so far
    inflight        \* requests sent and not yet answered; complete tells
                    \* whether complete_interview_session was ever sent

clientVars == <<clk, ui, debounce, monitor, stuck, timeouts, speech, lastAttempt,
                acts, inflight>>

VARIABLES
    wall,           \* the server's clock, in seconds
    socket,         \* the fields the connection handler keeps on its socket
    session,        \* the InterviewSession document held in socket.interviewSession
    interview,      \* the stored Interview document of the joined room
    activeSessions, \* codeAnalysisService.activeSessions, by sessionId
    calls,          \* the event handlers in flight, each suspended at an await
    done,           \* the handler that returned last
    hintsSent,      \* the timestamps of the hint_provided events, oldest first
    events,         \* events the connection will still send
    interactions,   \* the stored AIInteraction documents, oldest first
    completions     \* the sessions whose interview_session_completed was emitted

serverVars == <<wall, socket, session, interview, activeSessions, calls, done,
                hintsSent, events, interactions, completions>>

VARIABLES
    anCode,         \* analyzeCodeInRealTime: the code of the code_change event
    anLanguage,     \* its language
    anAi,           \* whether aiService.analyzeCode answers or rejects
    anMetrics,      \* whether calculateCodeMetrics returns or throws
    anPc,           \* "input", "analyzed" (the service was called) or
                    \* "handled" (the code_change handler ran)
    anResult,       \* the analysis the service resolved with
    anRan,          \* the heuristics that ran
    anEmitted       \* the handler emitted code_analysis

analyzeVars == <<anCode, anLanguage, anAi, anMetrics, anPc, anResult, anRan, anEmitted>>

VARIABLES
    mtCode,         \* the source text a metric is computed for, as lexemes
    mtResult        \* the value the metric function returned

metricVars == <<mtCode, mtResult>>

vars == <<cmpVars, execVars, clientVars, serverVars, analyzeVars, metricVars>>

\* what the actions of one component leave alone
notCmpVars == <<execVars, clientVars, serverVars, analyzeVars, metricVars>>

notExecVars == <<cmpVars, clientVars, serverVars, analyzeVars, metricVars>>

notClientVars == <<cmpVars, execVars, serverVars, analyzeVars, metricVars>>

notServerVars == <<cmpVars, execVars, clientVars, analyzeVars, metricVars>>

notAnalyzeVars == <<cmpVars, execVars, clientVars, serverVars, metricVars>>

notMetricVars == <<cmpVars, execVars, clientVars, serverVars, analyzeVars>>

(***************************************************************************)
(* Bounds                                                                  *)
(***************************************************************************)
MaxLen == 4

MaxTests == 2

MaxNow == 1

MaxTime == 260

MaxActions == 2

MaxEvents == 3

MaxSessionEvents == 4

MaxResults == 1

MaxCalls == 2

MaxWall == 120

WallStep == 60

(***************************************************************************)
(* Characters and strings                                                  *)
(***************************************************************************)
Whitespace == {" ", "\t", "\n"}

Digits == <<"0", "1", "2", "3", "4", "5", "6", "7", "8", "9">>

DigitSet == {Digits[i] : i \in 1..10}

\* String.prototype.toLowerCase on one character
LowerChar(c) ==
    CASE c = "A" -> "a"
      [] c = "B" -> "b"
      [] c = "E" -> "e"
      [] c = "J" -> "j"
      [] c = "S" -> "s"
      [] OTHER -> c

ToLowerCase(s) == [i \in 1..Len(s) |-> LowerChar(s[i])]

\* String.prototype.trim: drop the leading and the trailing whitespace
RECURSIVE TrimLeft(_)
TrimLeft(s) ==
    IF s = <<>> THEN s
    ELSE IF Head(s) \in Whitespace THEN TrimLeft(Tail(s))
    ELSE s

RECURSIVE TrimRight(_)
TrimRight(s) ==
    IF s = <<>> THEN s
    ELSE IF s[Len(s)] \in Whitespace THEN TrimRight(SubSeq(s, 1, Len(s) - 1))
    ELSE s

Trim(s) == TrimRight(TrimLeft(s))

\* str.replace(/\s+/g, ' '): every maximal run of whitespace becomes one space
RECURSIVE CollapseWhitespace(_)
CollapseWhitespace(s) ==
    IF s = <<>> THEN s
    ELSE IF Head(s) \in Whitespace
         THEN <<" ">> \o CollapseWhitespace(TrimLeft(s))
         ELSE <<Head(s)>> \o CollapseWhitespace(Tail(s))

\* Array.prototype.join on strings
RECURSIVE Join(_, _)
Join(ss, sep) ==
    IF ss = <<>> THEN <<>>
    ELSE IF Len(ss) = 1 THEN ss[1]
    ELSE ss[1] \o sep \o Join(Tail(ss), sep)

(***************************************************************************)
(* JSON values: a string, an integer or an array of values                 *)
(***************************************************************************)
Str(s) == [k |-> "str", n |-> 0, v |-> s]

Num(n) == [k |-> "num", n |-> n, v |-> <<>>]

Arr(xs) == [k |-> "arr", n |-> 0, v |-> xs]

RECURSIVE NatToChars(_)
NatToChars(n) ==
    IF n < 10 THEN <<Digits[n + 1]>>
    ELSE NatToChars(n \div 10) \o <<Digits[(n % 10) + 1]>>

\* Number.prototype.toString for integers
IntToChars(n) == IF n < 0 THEN <<"-">> \o NatToChars(0 - n) ELSE NatToChars(n)

\* JSON.stringify(value): no whitespace, arrays in brackets at every depth
RECURSIVE JsonStringify(_)
JsonStringify(x) ==
    CASE x.k = "num" -> IntToChars(x.n)
      [] x.k = "str" -> <<"\"">> \o x.v \o <<"\"">>
      [] x.k = "arr" ->
           <<"[">> \o Join([i \in 1..Len(x.v) |-> JsonStringify(x.v[i])], <<",">>)
                   \o <<"]">>

\* Python json.dumps(value): the default separators are ", " and ": "
RECURSIVE PyJsonDumps(_)
PyJsonDumps(x) ==
    CASE x.k = "num" -> IntToChars(x.n)
      [] x.k = "str" -> <<"\"">> \o x.v \o <<"\"">>
      [] x.k = "arr" ->
           <<"[">> \o Join([i \in 1..Len(x.v) |-> PyJsonDumps(x.v[i])], <<",", " ">>)
                   \o <<"]">>

\* String(value): a string is itself, a number its decimal form, an array
\* is its elements' String() joined by "," with no brackets at any depth
RECURSIVE JsString(_)
JsString(x) ==
    CASE x.k = "num" -> IntToChars(x.n)
      [] x.k = "str" -> x.v
      [] x.k = "arr" ->
           Join([i \in 1..Len(x.v) |-> JsString(x.v[i])], <<",">>)

(***************************************************************************)
(* JSON.parse on the subset of JSON the harnesses print                    *)
(***************************************************************************)
ParseFail == [ok |-> FALSE, val |-> Num(0), next |-> 0]

RECURSIVE SkipWs(_, _)
SkipWs(s, i) ==
    IF i <= Len(s) /\ s[i] \in Whitespace THEN SkipWs(s, i + 1) ELSE i

RECURSIVE DigitsEnd(_, _)
DigitsEnd(s, i) ==
    IF i <= Len(s) /\ s[i] \in DigitSet THEN DigitsEnd(s, i + 1) ELSE i

DigitVal(c) == CHOOSE d \in 0..9 : Digits[d + 1] = c

RECURSIVE CharsToNat(_, _)
CharsToNat(s, acc) ==
    IF s = <<>> THEN acc ELSE CharsToNat(Tail(s), acc * 10 + DigitVal(Head(s)))

\* a JSON integer: optional "-", then "0" or a digit string without leading zero
ParseNumber(s, i) ==
    LET neg == s[i] = "-"
        b   == IF neg THEN i + 1 ELSE i
        e   == DigitsEnd(s, b)
    IN  IF e = b THEN ParseFail
        ELSE IF s[b] = "0" /\ e > b + 1 THEN ParseFail
        ELSE LET m == CharsToNat(SubSeq(s, b, e - 1), 0)
             IN  [ok |-> TRUE, val |-> Num(IF neg THEN 0 - m ELSE m), next |-> e]

RECURSIVE StringEnd(_, _)
StringEnd(s, i) ==
    IF i > Len(s) THEN 0
    ELSE IF s[i] = "\"" THEN i
    ELSE IF s[i] = "\n" \/ s[i] = "\t" THEN 0
    ELSE StringEnd(s, i + 1)

ParseString(s, i) ==
    LET e == StringEnd(s, i + 1)
    IN  IF e = 0 THEN ParseFail
        ELSE [ok |-> TRUE, val |-> Str(SubSeq(s, i + 1, e - 1)), next |-> e + 1]

RECURSIVE ParseValue(_, _)
RECURSIVE ParseElems(_, _, _)
ParseValue(s, i) ==
    LET j == SkipWs(s, i)
    IN  IF j > Len(s) THEN ParseFail
        ELSE IF s[j] = "[" THEN
            LET c == SkipWs(s, j + 1)
            IN  IF c <= Len(s) /\ s[c] = "]"
                THEN [ok |-> TRUE, val |-> Arr(<<>>), next |-> c + 1]
                ELSE ParseElems(s, j + 1, <<>>)
        ELSE IF s[j] = "-" \/ s[j] \in DigitSet THEN ParseNumber(s, j)
        ELSE IF s[j] = "\"" THEN ParseString(s, j)
        ELSE ParseFail

ParseElems(s, i, acc) ==
    LET r == ParseValue(s, i)
    IN  IF ~r.ok THEN ParseFail
        ELSE LET c == SkipWs(s, r.next)
             IN  IF c > Len(s) THEN ParseFail
                 ELSE IF s[c] = "," THEN ParseElems(s, c + 1, Append(acc, r.val))
                 ELSE IF s[c] = "]"
                      THEN [ok |-> TRUE, val |-> Arr(Append(acc, r.val)), next |-> c + 1]
                 ELSE ParseFail

\* JSON.parse(text): ok is FALSE where JSON.parse throws a SyntaxError
JsonParse(s) ==
    LET r == ParseValue(s, 1)
    IN  IF r.ok /\ SkipWs(s, r.next) > Len(s) THEN r ELSE ParseFail

(***************************************************************************)
(* CodeExecutionService.compareOutputs                                     *)
(***************************************************************************)
normalizeCaseSensitive(x) == CollapseWhitespace(Trim(JsString(x)))

\* const normalize = (str) => String(str).trim().toLowerCase().replace(/\s+/g, ' ')
normalize(x) == CollapseWhitespace(ToLowerCase(Trim(JsString(x))))

\* actual is a JSON value (parsed output or raw string), expected a string
compareOutputs(actual, expected) == normalize(actual) = normalize(Str(expected))

(***************************************************************************)
(* SpecCompare: compareOutputs applied to bounded strings                  *)
(***************************************************************************)
CompareAlphabet == {"a", "A", " "}

SeqsUpTo(S, n) == UNION {[1..m -> S] : m \in 0..n}

SpacedPair == <<"[", "1", ",", " ", "2", "]">>

TightPair == <<"[", "1", ",", "2", "]">>

CompareInputs == SeqsUpTo(CompareAlphabet, MaxLen) \cup {SpacedPair, TightPair}

CompareInit ==
    /\ cmpActual \in CompareInputs
    /\ cmpExpected \in CompareInputs
    /\ cmpDone = FALSE
    /\ cmpResult = FALSE

CompareIdle ==
    /\ cmpActual = <<>>
    /\ cmpExpected = <<>>
    /\ cmpDone = FALSE
    /\ cmpResult = FALSE

Compare ==
    /\ ~cmpDone
    /\ cmpDone' = TRUE
    /\ cmpResult' = compareOutputs(Str(cmpActual), cmpExpected)
    /\ UNCHANGED <<cmpActual, cmpExpected>>
    /\ UNCHANGED notCmpVars

(***************************************************************************)
(* CodeExecutionService: executeTests and the per-language executors       *)
(***************************************************************************)
Runs == {1, 2}

Languages == {"javascript", "python", "c++", "java"}

\* the languages executeSingleTest has a case for (after toLowerCase)
Supported == {"javascript", "python", "c++"}

\* values a candidate's entry-point function returns
ReturnValues ==
    << Arr(<<Arr(<<Num(-1), Num(-1), Num(2)>>), Arr(<<Num(-1), Num(0), Num(1)>>)>>),
       Arr(<<>>) >>

\* the first two test cases of the 3Sum problem, as the client sends them
TestCases ==
    << [input |-> <<"[", "-", "1", ",", "0", ",", "1", ",", "2", ",", "-", "1",
                    ",", "-", "4", "]">>,
        expectedOutput |-> JsonStringify(ReturnValues[1])],
       [input |-> <<"[", "0", ",", "1", ",", "1", "]">>,
        expectedOutput |-> JsonStringify(ReturnValues[2])] >>

TestLists == UNION {[1..m -> {TestCases[i] : i \in 1..Len(TestCases)}] : m \in 0..MaxTests}

NoError == <<>>

NoPath == [t |-> 0 - 1, ext |-> "none"]

\* path.join(this.tempDir, `test_${Date.now()}.<ext>`)
TempPath(t, ext) == [t |-> t, ext |-> ext]

SourceExt(lang) ==
    CASE lang = "javascript" -> "js"
      [] lang = "python" -> "py"
      [] lang = "c++" -> "cpp"

Interpreter(lang) ==
    CASE lang = "javascript" -> "node"
      [] lang = "python" -> "python3"
      [] lang = "c++" -> "g++"

\* what the operating system makes of a spawned interpreter or binary
RunOutcomes == {"ok", "exit1", "timeout", "spawnError"}

\* what it makes of a spawned compiler
CompileOutcomes == {"compiled", "compileFail", "compileTimeout", "compileSpawnError"}

FirstOutcomes(lang) == IF lang = "c++" THEN CompileOutcomes ELSE RunOutcomes

\* the exit code the 'close' event carries: 0, non-zero, null (killed by
\* the timeout's signal) or the negative errno of a failed spawn
CloseCode(outcome) ==
    CASE outcome \in {"ok", "compiled"} -> "0"
      [] outcome \in {"exit1", "compileFail"} -> "1"
      [] outcome \in {"timeout", "compileTimeout"} -> "null"
      [] outcome \in {"spawnError", "compileSpawnError"} -> "-2"

\* stdout of the generated harness when the entry point returns v
JsStdout(v) == <<"ACTUAL_OUTPUT:", " ">> \o JsonStringify(v) \o <<"\n">>

PyStdout(v) == PyJsonDumps(v) \o <<"\n">>

\* the C++ harness prints a vector<vector<int>> with "," and no whitespace
CppStdout(v) ==
    <<"[">> \o Join([i \in 1..Len(v.v) |->
                       <<"[">> \o Join([j \in 1..Len(v.v[i].v) |-> IntToChars(v.v[i].v[j].n)],
                                       <<",">>) \o <<"]">>],
                    <<",">>) \o <<"]", "\n">>

Stderr(outcome) ==
    CASE outcome = "exit1" -> <<"E", "r", "r", "o", "r">>
      [] outcome = "compileFail" -> <<"e", "r", "r", "o", "r">>
      [] OTHER -> <<>>

ExecutionFailed == <<"E", "x", "e", "c", "u", "t", "i", "o", "n", " ", "f", "a", "i", "l", "e", "d">>

CompilationFailed == <<"C", "o", "m", "p", "i", "l", "a", "t", "i", "o", "n", " ", "f", "a", "i", "l", "e", "d", ":", " ">>

SpawnENOENT == <<"s", "p", "a", "w", "n", " ", "E", "N", "O", "E", "N", "T">>

UnsupportedLanguage == <<"U", "n", "s", "u", "p", "p", "o", "r", "t", "e", "d", " ", "l", "a", "n", "g", "u", "a", "g", "e">>

ExecutionErrorText == <<"E", "x", "e", "c", "u", "t", "i", "o", "n", " ", "E", "r", "r", "o", "r">>

\* reject(new Error(error || 'Execution failed'))
ExitErrorMessage(stderr) == IF stderr = <<>> THEN ExecutionFailed ELSE stderr

CompileErrorMessageGeneric(stderr) == ExitErrorMessage(stderr)

\* reject(new Error(`Compilation failed: ${compileError}`))
CompileErrorMessage(stderr) == CompilationFailed \o stderr

RECURSIVE IndexOf(_, _, _)
IndexOf(s, c, i) ==
    IF i > Len(s) THEN 0 ELSE IF s[i] = c THEN i ELSE IndexOf(s, c, i + 1)

RECURSIVE LineEnd(_, _)
LineEnd(s, i) ==
    IF i > Len(s) \/ s[i] = "\n" THEN i ELSE LineEnd(s, i + 1)

\* output.match(/ACTUAL_OUTPUT:\s*(.+)/): the captured group, or no match
MatchActualOutput(output) ==
    LET m == IndexOf(output, "ACTUAL_OUTPUT:", 1)
        b == SkipWs(output, m + 1)
        e == LineEnd(output, b)
    IN  IF m = 0 \/ e = b THEN [found |-> FALSE, group |-> <<>>]
        ELSE [found |-> TRUE, group |-> SubSeq(output, b, e - 1)]

\* executeJavaScript, 'close' with code 0: the value the promise resolves with
JsCloseOutput(output) ==
    LET am == MatchActualOutput(output)
        text == IF am.found THEN Trim(am.group) ELSE Trim(output)
        parsed == JsonParse(text)
    IN  IF parsed.ok THEN parsed.val ELSE Str(Trim(output))

\* executePython, 'close' with code 0
PyCloseOutput(output) ==
    LET parsed == JsonParse(Trim(output))
    IN  IF parsed.ok THEN parsed.val ELSE Str(Trim(output))

\* executeCpp, 'close' of the binary with code 0: the raw trimmed stdout
CppCloseOutput(output) == Str(Trim(output))

CloseOutput(lang, vi) ==
    CASE lang = "javascript" -> JsCloseOutput(JsStdout(ReturnValues[vi]))
      [] lang = "python" -> PyCloseOutput(PyStdout(ReturnValues[vi]))
      [] lang = "c++" -> CppCloseOutput(CppStdout(ReturnValues[vi]))

\* executeSingleTest, after the executor resolved
SingleTestResult(testNumber, testCase, output) ==
    [ testCase |-> testNumber,
      input |-> testCase.input,
      expectedOutput |-> testCase.expectedOutput,
      actualOutput |-> output,
      passed |-> compareOutputs(output, testCase.expectedOutput),
      error |-> NoError ]

SingleTestErrorUnset(testNumber, testCase, message) ==
    [ testCase |-> testNumber,
      input |-> testCase.input,
      expectedOutput |-> testCase.expectedOutput,
      actualOutput |-> Str(ExecutionErrorText),
      passed |-> FALSE,
      error |-> NoError ]

\* executeSingleTest, catch: the executor rejected or the language is unknown
SingleTestError(testNumber, testCase, message) ==
    [ testCase |-> testNumber,
      input |-> testCase.input,
      expectedOutput |-> testCase.expectedOutput,
      actualOutput |-> Str(ExecutionErrorText),
      passed |-> FALSE,
      error |-> message ]

IdleRun ==
    [ pc |-> "idle", lang |-> "javascript", tests |-> <<>>, results |-> <<>>,
      outcomes |-> <<>>, values |-> <<>>, compiles |-> 0, resp |-> "none",
      aiFailed |-> FALSE ]

OffRun == [IdleRun EXCEPT !.pc = "off"]

ExecInit ==
    /\ now = 0
    /\ files = {}
    /\ runs = [r \in Runs |-> IF r = 1 THEN IdleRun ELSE OffRun]
    /\ procs = {}
    /\ crashed = FALSE

ExecIdle ==
    /\ now = 0
    /\ files = {}
    /\ runs = [r \in Runs |-> OffRun]
    /\ procs = {}
    /\ crashed = FALSE

\* executeTests' loop from the point where rec.results holds the results so
\* far: either every test case has its result and executeTests returns to
\* the run_tests handler, which awaits the AI feedback, or the next
\* executeSingleTest writes its temporary file and spawns its first child
StartNext(r, rec, fs, ps) ==
    LET n == Len(rec.results) + 1
    IN  IF n > Len(rec.tests)
        THEN /\ runs' = [runs EXCEPT ![r] = [rec EXCEPT !.pc = "ai"]]
             /\ files' = fs
             /\ procs' = ps
             /\ now' = now
        ELSE \E o \in FirstOutcomes(rec.lang), vi \in 1..Len(ReturnValues),
                d \in (IF rec.lang = "c++" THEN {0, 1} ELSE {0}) :
                LET src == TempPath(now, SourceExt(rec.lang))
                    bin == IF rec.lang = "c++" THEN TempPath(now + d, "bin") ELSE NoPath
                    child == [ run |-> r, test |-> n, prog |-> Interpreter(rec.lang),
                               src |-> src, bin |-> bin, outcome |-> o, vi |-> vi,
                               errored |-> FALSE ]
                IN  /\ now + d <= MaxNow
                    /\ now' = now + d
                    /\ files' = fs \cup {src}
                    /\ procs' = ps \cup {child}
                    /\ runs' = [runs EXCEPT ![r] =
                                  [rec EXCEPT !.pc = "waiting",
                                              !.outcomes = Append(@, o),
                                              !.values = Append(@, vi),
                                              !.compiles = IF rec.lang = "c++" THEN @ + 1 ELSE @]]

\* the run_tests handler up to its first suspension: executeTests is called;
\* an unsupported language makes every executeSingleTest throw and be caught
\* without a child process, so executeTests returns in the same turn
StartRunOf(r, languages, testLists) ==
    /\ ~crashed
    /\ UNCHANGED notExecVars
    /\ runs[r].pc = "idle"
    /\ \E lang \in languages, tests \in testLists :
          LET rec == [runs[r] EXCEPT !.lang = lang, !.tests = tests]
          IN  IF lang \in Supported
              THEN StartNext(r, rec, files, procs)
              ELSE /\ runs' = [runs EXCEPT ![r] =
                                  [rec EXCEPT !.pc = "ai",
                                              !.results = [i \in 1..Len(tests) |->
                                                  SingleTestError(i, tests[i], UnsupportedLanguage)],
                                              !.outcomes = [i \in 1..Len(tests) |-> "unsupported"],
                                              !.values = [i \in 1..Len(tests) |-> 1]]]
                   /\ UNCHANGED <<now, files, procs>>
    /\ UNCHANGED crashed

StartRun(r) == StartRunOf(r, Languages, TestLists)

\* run_tests events of two connections, each with one test case
PairLanguages == {"javascript", "python"}

PairTestLists == {tests \in TestLists : Len(tests) = 1}

StartRunOfPair(r) == StartRunOf(r, PairLanguages, PairTestLists)

ExecPairInit ==
    /\ now = 0
    /\ files = {}
    /\ runs = [r \in Runs |-> IdleRun]
    /\ procs = {}
    /\ crashed = FALSE

\* the promise of the execution child c belongs to is still pending
Pending(c) ==
    /\ runs[c.run].pc = "waiting"
    /\ Len(runs[c.run].results) + 1 = c.test
    /\ ~c.errored

\* resolve/reject of c's promise with result res, then the awaiting
\* executeSingleTest and executeTests resume in the same turn; settling a
\* promise that is already settled does nothing
Settle(c, res, fs, ps) ==
    IF Pending(c)
    THEN StartNext(c.run, [runs[c.run] EXCEPT !.results = Append(@, res)], fs, ps)
    ELSE /\ files' = fs
         /\ procs' = ps
         /\ UNCHANGED <<now, runs>>

\* fs.unlinkSync of a missing path throws inside the event handler; nothing
\* catches it there
Uncaught(fs, ps) ==
    /\ crashed' = TRUE
    /\ files' = fs
    /\ procs' = ps
    /\ UNCHANGED <<now, runs>>

\* child.on('error') of executeJavaScript / executePython / executeCpp and
\* compileChild.on('error'): clean up, reject(err)
ChildError ==
    /\ ~crashed
    /\ UNCHANGED notExecVars
    /\ \E c \in procs :
          /\ c.outcome \in {"spawnError", "compileSpawnError"}
          /\ ~c.errored
          /\ LET paths == IF c.prog = "exe" THEN <<c.src, c.bin>> ELSE <<c.src>>
                 later == (procs \ {c}) \cup {[c EXCEPT !.errored = TRUE]}
                 tc == runs[c.run].tests[c.test]
             IN  IF paths[1] \notin files
                 THEN Uncaught(files, later)
                 ELSE IF Len(paths) = 2 /\ paths[2] \notin files
                 THEN Uncaught(files \ {paths[1]}, later)
                 ELSE /\ Settle(c, SingleTestError(c.test, tc, SpawnENOENT),
                                files \ {paths[i] : i \in 1..Len(paths)}, later)
                      /\ UNCHANGED crashed

\* child.on('close') of executeJavaScript and executePython
InterpreterClose ==
    /\ ~crashed
    /\ UNCHANGED notExecVars
    /\ \E c \in procs :
          /\ c.prog \in {"node", "python3"}
          /\ c.outcome = "spawnError" => c.errored
          /\ LET tc == runs[c.run].tests[c.test]
                 lang == runs[c.run].lang
                 res == IF CloseCode(c.outcome) # "0"
                        THEN SingleTestError(c.test, tc, ExitErrorMessage(Stderr(c.outcome)))
                        ELSE SingleTestResult(c.test, tc, CloseOutput(lang, c.vi))
             IN  IF c.src \notin files
                 THEN Uncaught(files, procs \ {c})
                 ELSE /\ Settle(c, res, files \ {c.src}, procs \ {c})
                      /\ UNCHANGED crashed

\* compileChild.on('close') of executeCpp: a failed compilation removes the
\* source and rejects; a successful one leaves the binary and spawns it
CompileClose ==
    /\ ~crashed
    /\ UNCHANGED notExecVars
    /\ \E c \in procs :
          /\ c.prog = "g++"
          /\ c.outcome = "compileSpawnError" => c.errored
          /\ LET tc == runs[c.run].tests[c.test]
             IN  IF CloseCode(c.outcome) # "0"
                 THEN IF c.src \notin files
                      THEN Uncaught(files, procs \ {c})
                      ELSE /\ Settle(c, SingleTestError(c.test, tc,
                                            CompileErrorMessage(Stderr(c.outcome))),
                                     files \ {c.src}, procs \ {c})
                           /\ UNCHANGED crashed
                 ELSE \E o \in RunOutcomes :
                         /\ procs' = (procs \ {c}) \cup
                                       {[c EXCEPT !.prog = "exe", !.outcome = o]}
                         /\ files' = files \cup {c.bin}
                         /\ runs' = [runs EXCEPT ![c.run].outcomes[c.test] = o]
                         /\ UNCHANGED <<now, crashed>>

\* child.on('close') of the compiled binary in executeCpp
BinaryClose ==
    /\ ~crashed
    /\ UNCHANGED notExecVars
    /\ \E c \in procs :
          /\ c.prog = "exe"
          /\ c.outcome = "spawnError" => c.errored
          /\ LET tc == runs[c.run].tests[c.test]
                 res == IF CloseCode(c.outcome) # "0"
                        THEN SingleTestError(c.test, tc, ExitErrorMessage(Stderr(c.outcome)))
                        ELSE SingleTestResult(c.test, tc, CloseOutput("c++", c.vi))
             IN  IF c.src \notin files
                 THEN Uncaught(files, procs \ {c})
                 ELSE IF c.bin \notin files
                 THEN Uncaught(files \ {c.src}, procs \ {c})
                 ELSE /\ Settle(c, res, files \ {c.src, c.bin}, procs \ {c})
                      /\ UNCHANGED crashed

RunTestsRespondFatal(r) ==
    /\ ~crashed
    /\ UNCHANGED notExecVars
    /\ runs[r].pc = "ai"
    /\ \E aiOk \in BOOLEAN :
          LET infra == \E i \in 1..Len(runs[r].results) :
                          runs[r].results[i].error = SpawnENOENT
          IN  runs' = [runs EXCEPT ![r].pc = "responded",
                                   ![r].aiFailed = ~aiOk,
                                   ![r].resp = IF aiOk /\ ~infra THEN "test_results"
                                               ELSE "error"]
    /\ UNCHANGED <<now, files, procs, crashed>>

\* the rest of the run_tests handler of a connection that has no session:
\* aiService.generateTestBasedResponse either resolves, and test_results is
\* emitted, or rejects, and the catch emits error
RunTestsRespond(r) ==
    /\ ~crashed
    /\ UNCHANGED notExecVars
    /\ runs[r].pc = "ai"
    /\ \E aiOk \in BOOLEAN :
          runs' = [runs EXCEPT ![r].pc = "responded",
                               ![r].aiFailed = ~aiOk,
                               ![r].resp = IF aiOk THEN "test_results" ELSE "error"]
    /\ UNCHANGED <<now, files, procs, crashed>>

\* the server's clock advances
Tick ==
    /\ ~crashed
    /\ UNCHANGED notExecVars
    /\ now < MaxNow
    /\ now' = now + 1
    /\ UNCHANGED <<files, runs, procs, crashed>>

(***************************************************************************)
(* CandidateCoding.tsx: hint tiers and the AI-response cooldown            *)
(*                                                                         *)
(* Time is in seconds.  A callback created in a render sees the state of   *)
(* that render: the monitoring interval is re-created, with the current    *)
(* state, only when one of its effect's dependencies changes, the debounce *)
(* timeout when one of the code-change effect's dependencies changes, the  *)
(* checkStuck interval when stuckTime changes.                             *)
(***************************************************************************)
TwoMinutes == 120

DebounceDelay == 5

MonitorPeriod == 120

OneSecond == 1

SpeechTimeout == 10

MaxHintTier == 3

ErrorThreshold == 3

NoTime == 0 - 1

\* problems.length
NumProblems == 2

\* code.trim().length = 0 / in 1..2 / >= 3 without 'for' / >= 3 with 'for'
CodeKinds == {"empty", "short", "plain", "loops"}

Meaningful(code) == code \in {"plain", "loops"}

\* getStarterTemplate(language, problems[currentProblem].title)
StarterTemplate == "plain"

Min(S) == CHOOSE x \in S : \A y \in S : x <= y

\* canSendAIResponse, evaluated at time t by a closure that captured
\* lastAIResponseTime = last and aiResponseCooldown = cooldown
canSendAIResponse(last, cooldown, t) ==
    IF last = NoTime THEN TRUE
    ELSE (t - last >= TwoMinutes) /\ ~cooldown

\* updateAIResponseTime, on the React state
updateAIResponseTime(u, t) ==
    [u EXCEPT !.lastAI = t, !.cooldown = TRUE]

\* the setTimeout of updateAIResponseTime and the delayed socket.emit
DispatchTimeouts(t, kind) ==
    { [kind |-> "clear", due |-> t + TwoMinutes],
      [kind |-> kind, due |-> t + TwoMinutes] }

\* triggerHint: generateHint is non-empty for tiers 1..3 of both problems
triggerHintKeepsErrors(u) ==
    IF u.hintTier < MaxHintTier
    THEN [u EXCEPT !.hintTier = @ + 1, !.idleStartTime = NoTime]
    ELSE u

triggerHint(u) ==
    IF u.hintTier < MaxHintTier
    THEN [u EXCEPT !.hintTier = @ + 1, !.idleStartTime = NoTime, !.syntaxErrors = 0]
    ELSE u

\* more than d seconds lie between since and t; when they are d whole seconds
\* apart, late tells whether the callback ran some milliseconds after its
\* due time
MoreThan(d, since, t, late) ==
    (t - since > d) \/ (late /\ t - since = d)

\* checkForHint, at time t
checkForHint(u, t, late) ==
    IF u.idleStartTime # NoTime /\ MoreThan(TwoMinutes, u.idleStartTime, t, late)
       /\ u.hintTier < MaxHintTier
    THEN triggerHint(u)
    ELSE IF u.syntaxErrors >= ErrorThreshold /\ u.hintTier < MaxHintTier
    THEN triggerHint(u)
    ELSE IF u.code = "loops" /\ u.hintTier < MaxHintTier
    THEN triggerHint(u)
    ELSE u

moveToNextProblemKeepsTier(u, problem) ==
    IF problem < NumProblems - 1
    THEN [u EXCEPT !.currentProblem = @ + 1, !.code = "empty", !.analysis = "none",
                   !.stuckTime = NoTime, !.syntaxErrors = 0, !.idleStartTime = NoTime,
                   !.resetFrom = u.hintTier]
    ELSE [u EXCEPT !.showCompleteDialog = TRUE]

\* moveToNextProblem as called by a closure whose currentProblem is problem;
\* resetFrom remembers the tier that was reset
moveToNextProblem(u, problem) ==
    IF problem < NumProblems - 1
    THEN [u EXCEPT !.currentProblem = @ + 1, !.code = "empty", !.analysis = "none",
                   !.stuckTime = NoTime, !.hintTier = 0, !.syntaxErrors = 0,
                   !.idleStartTime = NoTime, !.resetFrom = u.hintTier]
    ELSE [u EXCEPT !.showCompleteDialog = TRUE]

NoDebounce == [due |-> NoTime, lastAI |-> NoTime, cooldown |-> FALSE,
               code |-> "empty", enabled |-> FALSE]

NoStuck == [next |-> NoTime, problem |-> 0]

NoSpeech == [deadline |-> NoTime, lastAI |-> NoTime, cooldown |-> FALSE]

NoAttempt == [at |-> NoTime, prev |-> NoTime, permitted |-> FALSE, path |-> "none"]

\* the effects that run after a handler left the state v, when the state of
\* the previous render was old; codeEffect forces the code-change effect
\* (the editor content was replaced, if only by an equal-looking template)
\*   template effect   [language, currentProblem]
\*   code-change effect [code, socket, language, aiResponseEnabled]
\*   stuck detection    [code]
\*   checkStuck         [stuckTime]
\*   monitoring         [idleStartTime, syntaxErrors, hintTier, code, language,
\*                       currentProblem, analysis, socket, aiResponseEnabled]
Commit(old, v, codeEffect, analysisSet) ==
    LET v1 == IF v.currentProblem # old.currentProblem
              THEN [v EXCEPT !.code = StarterTemplate] ELSE v
        codeChanged == codeEffect \/ v1.code # old.code
                       \/ v.currentProblem # old.currentProblem
        runCode == codeChanged \/ v1.enabled # old.enabled
        v2 == IF runCode
              THEN [v1 EXCEPT !.idleStartTime =
                                  IF v1.code = "empty" THEN clk ELSE NoTime]
              ELSE v1
        v3 == IF codeChanged
              THEN [v2 EXCEPT !.stuckTime =
                                  IF v2.code = "empty" THEN clk ELSE NoTime]
              ELSE v2
        deb == IF runCode
               THEN IF v3.code # "empty"
                    THEN [due |-> clk + DebounceDelay, lastAI |-> v3.lastAI,
                          cooldown |-> v3.cooldown, code |-> v3.code,
                          enabled |-> v3.enabled]
                    ELSE NoDebounce
               ELSE debounce
        stk == IF v3.stuckTime # old.stuckTime \/ (codeChanged /\ v3.stuckTime # NoTime)
               THEN IF v3.stuckTime # NoTime
                    THEN [next |-> clk + TwoMinutes,
                          problem |-> v3.currentProblem]
                    ELSE NoStuck
               ELSE stuck
        monDeps(x) == <<x.idleStartTime, x.syntaxErrors, x.hintTier, x.code,
                        x.currentProblem, x.analysis, x.enabled>>
        mon == IF monDeps(v3) # monDeps(old) \/ codeChanged \/ analysisSet
               THEN [next |-> clk + MonitorPeriod, lastAI |-> v3.lastAI,
                     cooldown |-> v3.cooldown]
               ELSE monitor
    IN  /\ ui' = v3
        /\ debounce' = deb
        /\ stuck' = stk
        /\ monitor' = mon

ClientInit ==
    /\ clk = 0
    /\ ui = [ code |-> StarterTemplate, currentProblem |-> 0, hintTier |-> 0,
              idleStartTime |-> NoTime, syntaxErrors |-> 0, analysis |-> "none",
              enabled |-> TRUE, lastAI |-> NoTime, cooldown |-> FALSE,
              aiLoading |-> FALSE, stuckTime |-> NoTime,
              showCompleteDialog |-> FALSE,
              resetFrom |-> NoTime ]
    /\ debounce = [due |-> DebounceDelay, lastAI |-> NoTime, cooldown |-> FALSE,
                   code |-> StarterTemplate, enabled |-> TRUE]
    /\ monitor = [next |-> MonitorPeriod, lastAI |-> NoTime, cooldown |-> FALSE]
    /\ stuck = NoStuck
    /\ timeouts = {}
    /\ speech = NoSpeech
    /\ lastAttempt = NoAttempt
    /\ acts = 0
    /\ inflight = [code |-> 0, audio |-> 0, complete |-> FALSE]

ClientIdle == ClientInit

\* an attempt, at the current time, to dispatch an automated AI request;
\* prev is the time of the session's previous dispatch
Attempt(path, permitted) ==
    [at |-> clk, prev |-> ui.lastAI, permitted |-> permitted, path |-> path]

\* handleCodeChange(newCode): the candidate changes the editor content; a
\* first text of ten characters or more gets the fallback analysis
EditCode ==
    /\ UNCHANGED notClientVars
    /\ acts < MaxActions
    /\ ~ui.showCompleteDialog
    /\ \E code \in CodeKinds, long \in BOOLEAN :
          LET counted == ui.analysis = "errors"
              fallback == ui.analysis = "none" /\ Meaningful(code) /\ long
              v == [ui EXCEPT !.code = code,
                              !.syntaxErrors = IF counted THEN @ + 1 ELSE @,
                              !.analysis = IF fallback THEN "clean" ELSE @]
          IN  Commit(ui, v, TRUE, fallback)
    /\ acts' = acts + 1
    /\ UNCHANGED <<clk, timeouts, speech, lastAttempt, inflight>>

\* handleLanguageChange: the template effect loads the other language's template
ChangeLanguage ==
    /\ UNCHANGED notClientVars
    /\ acts < MaxActions
    /\ ~ui.showCompleteDialog
    /\ Commit(ui, [ui EXCEPT !.code = StarterTemplate], TRUE, FALSE)
    /\ acts' = acts + 1
    /\ UNCHANGED <<clk, timeouts, speech, lastAttempt, inflight>>

\* the "Complete Interview" button: handleCompleteInterview, in a session
\* whose interviewSessionId has arrived
CompleteInterview ==
    /\ UNCHANGED notClientVars
    /\ acts < MaxActions
    /\ ~ui.showCompleteDialog
    /\ ui' = [ui EXCEPT !.showCompleteDialog = TRUE]
    /\ inflight' = [inflight EXCEPT !.complete = TRUE]
    /\ acts' = acts + 1
    /\ UNCHANGED <<clk, debounce, monitor, stuck, timeouts, speech, lastAttempt>>

\* a click on the dialog's backdrop: setShowCompleteDialog(false); a checkStuck
\* interval that has passed its two minutes on the last problem opens the
\* dialog again at its next tick
DismissDialog ==
    /\ UNCHANGED notClientVars
    /\ acts < MaxActions
    /\ ui.showCompleteDialog
    /\ ui' = [ui EXCEPT !.showCompleteDialog = FALSE]
    /\ stuck' = IF ui.stuckTime # NoTime /\ stuck.next = NoTime
                THEN [stuck EXCEPT !.next = clk + OneSecond]
                ELSE stuck
    /\ acts' = acts + 1
    /\ UNCHANGED <<clk, debounce, monitor, timeouts, speech, lastAttempt, inflight>>

\* the "AI response" checkbox: setAiResponseEnabled(e.target.checked)
ToggleAI ==
    /\ UNCHANGED notClientVars
    /\ acts < MaxActions
    /\ ~ui.showCompleteDialog
    /\ Commit(ui, [ui EXCEPT !.enabled = ~@], FALSE, FALSE)
    /\ acts' = acts + 1
    /\ UNCHANGED <<clk, timeouts, speech, lastAttempt, inflight>>

\* the "Previous Problem" button: setCurrentProblem(prev => prev - 1)
PreviousProblem ==
    /\ UNCHANGED notClientVars
    /\ acts < MaxActions
    /\ ~ui.showCompleteDialog
    /\ ui.currentProblem > 0
    /\ Commit(ui, [ui EXCEPT !.currentProblem = @ - 1], TRUE, FALSE)
    /\ acts' = acts + 1
    /\ UNCHANGED <<clk, timeouts, speech, lastAttempt, inflight>>

\* the microphone button (disabled while isRecording, aiResponseCooldown or
\* isAILoading): startAudioRecording up to its await of speechToText
Speak ==
    /\ UNCHANGED notClientVars
    /\ acts < MaxActions
    /\ ~ui.showCompleteDialog
    /\ speech = NoSpeech
    /\ ~ui.cooldown
    /\ ~ui.aiLoading
    /\ speech' = [deadline |-> clk + SpeechTimeout, lastAI |-> ui.lastAI,
                  cooldown |-> ui.cooldown]
    /\ acts' = acts + 1
    /\ UNCHANGED <<clk, ui, debounce, monitor, stuck, timeouts, lastAttempt, inflight>>

\* speechToText resolved with a text: the rest of startAudioRecording
SpeechResult ==
    /\ UNCHANGED notClientVars
    /\ speech # NoSpeech
    /\ clk < speech.deadline
    /\ LET ok == canSendAIResponse(speech.lastAI, speech.cooldown, clk)
       IN  /\ lastAttempt' = Attempt("speech", ok)
           /\ IF ok
              THEN /\ ui' = [updateAIResponseTime(ui, clk) EXCEPT !.aiLoading = TRUE]
                   /\ timeouts' = timeouts \cup DispatchTimeouts(clk, "emitAudio")
              ELSE UNCHANGED <<ui, timeouts>>
    /\ speech' = NoSpeech
    /\ UNCHANGED <<clk, debounce, monitor, stuck, acts, inflight>>

\* speechToText rejected (its 10 second timeout): no request is attempted
SpeechFails ==
    /\ UNCHANGED notClientVars
    /\ speech # NoSpeech
    /\ clk = speech.deadline
    /\ speech' = NoSpeech
    /\ UNCHANGED <<clk, ui, debounce, monitor, stuck, timeouts, lastAttempt, acts,
                   inflight>>

\* the analysisTimeout callback of the code-change effect
DebounceFires ==
    /\ UNCHANGED notClientVars
    /\ debounce.due = clk
    /\ LET wanted == Meaningful(debounce.code) /\ debounce.enabled
           ok == canSendAIResponse(debounce.lastAI, debounce.cooldown, clk)
       IN  /\ lastAttempt' = IF wanted THEN Attempt("debounce", ok) ELSE lastAttempt
           /\ IF wanted /\ ok
              THEN /\ ui' = [updateAIResponseTime(ui, clk) EXCEPT !.aiLoading = TRUE]
                   /\ timeouts' = timeouts \cup DispatchTimeouts(clk, "emit")
              ELSE UNCHANGED <<ui, timeouts>>
    /\ debounce' = NoDebounce
    /\ UNCHANGED <<clk, monitor, stuck, speech, acts, inflight>>

\* the monitoringInterval callback: checkForHint, then the periodic analysis
MonitorFires ==
    /\ UNCHANGED notClientVars
    /\ monitor.next = clk
    /\ \E late \in BOOLEAN :
       LET hinted == checkForHint(ui, clk, late)
           wanted == Meaningful(ui.code) /\ ui.enabled
           ok == canSendAIResponse(monitor.lastAI, monitor.cooldown, clk)
           v == IF wanted /\ ok
                THEN [updateAIResponseTime(hinted, clk) EXCEPT !.aiLoading = TRUE]
                ELSE hinted
           monDeps(x) == <<x.idleStartTime, x.syntaxErrors, x.hintTier>>
       IN  /\ lastAttempt' = IF wanted THEN Attempt("monitor", ok) ELSE lastAttempt
           /\ timeouts' = IF wanted /\ ok
                          THEN timeouts \cup DispatchTimeouts(clk, "emit")
                          ELSE timeouts
           /\ ui' = v
           /\ monitor' = IF monDeps(v) # monDeps(ui)
                         THEN [next |-> clk + MonitorPeriod, lastAI |-> v.lastAI,
                               cooldown |-> v.cooldown]
                         ELSE [monitor EXCEPT !.next = clk + MonitorPeriod]
    /\ UNCHANGED <<clk, debounce, stuck, speech, acts, inflight>>

\* the setTimeout of updateAIResponseTime: setAiResponseCooldown(false)
CooldownTimeoutFires ==
    /\ UNCHANGED notClientVars
    /\ \E t \in timeouts :
          /\ t.kind = "clear"
          /\ t.due = clk
          /\ timeouts' = timeouts \ {t}
    /\ ui' = [ui EXCEPT !.cooldown = FALSE]
    /\ UNCHANGED <<clk, debounce, monitor, stuck, speech, lastAttempt, acts, inflight>>

\* the one-second interval of the cooldown countdown effect, at the first
\* tick at which two minutes have passed since lastAIResponseTime
CooldownIntervalClears ==
    /\ UNCHANGED notClientVars
    /\ ui.cooldown
    /\ ui.lastAI # NoTime
    /\ clk = ui.lastAI + TwoMinutes
    /\ ui' = [ui EXCEPT !.cooldown = FALSE]
    /\ UNCHANGED <<clk, debounce, monitor, stuck, timeouts, speech, lastAttempt, acts,
                   inflight>>

\* the delayed socket.emit('code_change') or socket.emit('audio_analysis')
EmitFires ==
    /\ UNCHANGED notClientVars
    /\ \E t \in timeouts :
          /\ t.kind \in {"emit", "emitAudio"}
          /\ t.due = clk
          /\ timeouts' = timeouts \ {t}
          /\ inflight' = IF t.kind = "emit"
                         THEN [inflight EXCEPT !.code = @ + 1]
                         ELSE [inflight EXCEPT !.audio = @ + 1]
    /\ UNCHANGED <<clk, ui, debounce, monitor, stuck, speech, lastAttempt, acts>>

\* socket.on('code_analysis'): setAnalysis(data.analysis), loading cleared
ReceiveAnalysis ==
    /\ UNCHANGED notClientVars
    /\ inflight.code > 0
    /\ inflight' = [inflight EXCEPT !.code = @ - 1]
    /\ \E a \in {"clean", "errors"} :
          Commit(ui, [ui EXCEPT !.analysis = a,
                                !.aiLoading = IF ui.enabled THEN FALSE ELSE @],
                 FALSE, TRUE)
    /\ UNCHANGED <<clk, timeouts, speech, lastAttempt, acts>>

\* socket.on('audio_analysis_response') with a response
ReceiveAudioResponse ==
    /\ UNCHANGED notClientVars
    /\ inflight.audio > 0
    /\ inflight' = [inflight EXCEPT !.audio = @ - 1]
    /\ ui' = [ui EXCEPT !.aiLoading = IF ui.enabled THEN FALSE ELSE @]
    /\ UNCHANGED <<clk, debounce, monitor, stuck, timeouts, speech, lastAttempt, acts>>

\* a tick of the checkStuck interval two minutes or more after stuckTime:
\* moveToNextProblem with the closure's currentProblem once more than two
\* minutes have passed; on the last problem every later tick calls
\* handleCompleteInterview again, which leaves the dialog open
StuckFires ==
    /\ UNCHANGED notClientVars
    /\ stuck.next = clk
    /\ \E late \in BOOLEAN :
          IF MoreThan(TwoMinutes, ui.stuckTime, clk, late)
          THEN LET v == moveToNextProblem(ui, stuck.problem)
               IN  IF v.currentProblem # ui.currentProblem
                   THEN /\ Commit(ui, v, TRUE, FALSE)
                        /\ UNCHANGED inflight
                   ELSE /\ ui' = v
                        /\ stuck' = [stuck EXCEPT !.next = NoTime]
                        /\ inflight' = [inflight EXCEPT !.complete = TRUE]
                        /\ UNCHANGED <<debounce, monitor>>
          ELSE /\ stuck' = [stuck EXCEPT !.next = clk + OneSecond]
               /\ UNCHANGED <<ui, debounce, monitor, inflight>>
    /\ UNCHANGED <<clk, timeouts, speech, lastAttempt, acts>>

\* the times at which a pending callback has work to do
DueTimes ==
    {debounce.due, monitor.next, stuck.next, speech.deadline} \cup
    {t.due : t \in timeouts} \cup
    (IF ui.cooldown /\ ui.lastAI # NoTime THEN {ui.lastAI + TwoMinutes} ELSE {})

\* time passes, up to the next pending callback
Advance ==
    /\ UNCHANGED notClientVars
    /\ \A d \in DueTimes : d = NoTime \/ d > clk
    /\ \E d \in DueTimes : d > clk
    /\ clk' = Min({d \in DueTimes : d > clk})
    /\ clk' <= MaxTime
    /\ UNCHANGED <<ui, debounce, monitor, stuck, timeouts, speech, lastAttempt, acts,
                   inflight>>

(***************************************************************************)
(* socketHandlers.js: the event handlers of one connection                 *)
(*                                                                         *)
(* A handler runs until its next await, where other handlers of the same   *)
(* socket may run; a call is one handler in flight, suspended at pc.       *)
(* Stored documents (Mongoose save, find) and the AI backend may fail.     *)
(***************************************************************************)
PassThreshold == 80

Slots == 1..MaxCalls

\* the indices of session.problems: 1 is '3sum' (problems[0]), 2 is
\* 'product-except-self' (problems[1])
ProblemIds == 1..NumProblems

\* one element of problems: in startInterviewSession
NewProblem == [score |-> 0, attempts |-> 0, completed |-> FALSE]

\* socket.interviewSession = null
NoSession ==
    [ id |-> 0, status |-> "none", codeSubmissions |-> <<>>,
      problems |-> [p \in ProblemIds |-> NewProblem],
      overallScore |-> 0, codeChanges |-> 0, syntaxErrors |-> 0 ]

\* new InterviewSession({...}) in startInterviewSession, the id-th of the socket
NewSession(id) ==
    [NoSession EXCEPT !.id = id, !.status = "in-progress"]

\* const currentProblemIndex = 0 in run_tests: the first element of problems
CurrentProblemIndex == 1

\* the sessionIds that events carry: CandidateCoding sends the constant
\* 'candidate-session', InterviewRoom the sessionId of the joined interview
SessionKeys == {"candidate-session", "interview"}

\* const analysisSessionId = sessionId || ... in code_change
AnalysisKey == IF socket.currentSession THEN "interview" ELSE "candidate-session"

\* the sessionId under which code_change stores its interaction
ClientSessionId == <<AnalysisKey, 0>>

\* an absent entry of activeSessions; owner is the connection whose handler
\* created the entry, lastAnalysis the connection whose analysis it holds
NoEntry == [owner |-> "none", lastAnalysis |-> "none", hints |-> 0]

\* this.activeSessions.set(sessionId, {...get(sessionId), lastAnalysis}) by a
\* handler of connection who
StoreAnalysis(key, who) ==
    [activeSessions EXCEPT ![key] =
        [@ EXCEPT !.owner = IF @ = "none" THEN who ELSE @, !.lastAnalysis = who]]

\* this.activeSessions.set(sessionId, {...session, hints: [...]}) in generateHint
StoreHint(key, who) ==
    [activeSessions EXCEPT ![key] =
        [@ EXCEPT !.owner = IF @ = "none" THEN who ELSE @, !.hints = @ + 1]]

\* CodeAnalysisService.clearSession
clearSession(key) == [activeSessions EXCEPT ![key] = NoEntry]

\* socket.interviewSession.sessionId of the id-th session of the socket
SessionId(id) == <<"session", id>>

\* socket.interviewSession?.sessionId || 'test-session' in run_tests
TestSessionId ==
    IF socket.interviewSession THEN SessionId(session.id) ELSE <<"test-session", 0>>

\* a stored AIInteraction: totalInteractions is that of an
\* interview_completion document, during is the session of the socket when
\* the document was stored
Interaction(sessionId, interactionType, totalInteractions) ==
    [ sessionId |-> sessionId, interactionType |-> interactionType,
      totalInteractions |-> totalInteractions,
      during |-> IF socket.interviewSession THEN session.id ELSE 0 ]

\* AIInteraction.find({ sessionId }).length
FoundInteractions(sessionId) ==
    Cardinality({i \in 1..Len(interactions) : interactions[i].sessionId = sessionId})

\* Math.round(x / y) for naturals x and y > 0
RoundDiv(x, y) == (2 * x + y) \div (2 * y)

SumSeq(q) ==
    LET sum[i \in 0..Len(q)] == IF i = 0 THEN 0 ELSE sum[i - 1] + q[i]
    IN  sum[Len(q)]

\* InterviewSessionSchema.methods.calculateOverallScore
calculateOverallScore(submissions) ==
    IF Len(submissions) = 0 THEN 0
    ELSE LET scores == [i \in 1..Len(submissions) |-> submissions[i].overallScore]
         IN  RoundDiv(SumSeq(scores), Len(submissions))

\* the same without Math.round
SubmissionScoreTruncated(passed, total) ==
    IF total > 0 THEN (passed * 100) \div total ELSE 0

\* the overallScore of a submission with passed of total tests passed
SubmissionScore(passed, total) ==
    IF total > 0 THEN RoundDiv(passed * 100, total) ELSE 0

\* what executeTests can return for at most n test cases: the passed flag of
\* each result; the handler only counts the flags, so the lists with the
\* passed results first stand for all
ResultLists(n) == {[i \in 1..m |-> i <= p] : m \in 0..n, p \in 0..n}

\* a handler in flight: the events it has emitted, whether it has changed the
\* session or the socket's counters, whether its event arrived after the
\* interview_session_completed of the session, the problem the candidate was attempting when
\* the event was sent, and its locals code and interview
NoCall ==
    [ event |-> "none", pc |-> "free", emitted |-> {}, changed |-> FALSE,
      afterCompletion |-> FALSE, problem |-> 0,
      code |-> "none", hasInterview |-> FALSE ]

NewCall(event, pc) ==
    [NoCall EXCEPT !.event = event, !.pc = pc,
                   !.afterCompletion = socket.interviewSession
                                       /\ session.id \in completions]

FreeSlots == {c \in Slots : calls[c].pc = "free"}

\* an event can be received
Receivable ==
    /\ socket.connected
    /\ events > 0
    /\ FreeSlots # {}

FirstFree == CHOOSE c \in FreeSlots : \A d \in FreeSlots : c <= d

\* the handler of call record rec returns after emitting out
Outcome(rec, out) ==
    [ event |-> rec.event, emitted |-> rec.emitted \cup out,
      changed |-> rec.changed, afterCompletion |-> rec.afterCompletion ]

\* the handler in slot c goes on to its next await
Suspend(c, rec) ==
    /\ calls' = [calls EXCEPT ![c] = rec]
    /\ UNCHANGED done

\* the handler in slot c returns
Finish(c, rec, out) ==
    /\ calls' = [calls EXCEPT ![c] = NoCall]
    /\ done' = Outcome(rec, out)

\* the state of the server once the connection is made, the connection
\* having budget events to send
Connected(budget) ==
    /\ wall = 0
    /\ socket = [ connected |-> TRUE, currentSession |-> FALSE,
                  interviewSession |-> FALSE, codeChangeCount |-> 0, created |-> 0 ]
    /\ session = NoSession
    /\ interview = [status |-> "scheduled", hints |-> 0, codeSubmissions |-> 0]
    /\ activeSessions = [k \in SessionKeys |-> NoEntry]
    /\ calls = [c \in Slots |-> NoCall]
    /\ done = Outcome(NoCall, {})
    /\ hintsSent = <<>>
    /\ events = budget
    /\ interactions = <<>>
    /\ completions = {}

\* a connection that may send any event
ServerInit == Connected(MaxEvents)

\* the connection of a CandidateCoding page
CandidateInit == Connected(MaxSessionEvents)

ServerIdle == Connected(0)

\* socket.on('join_interview') up to await Interview.findOne
JoinInterview ==
    /\ UNCHANGED notServerVars
    /\ UNCHANGED <<interactions, completions>>
    /\ Receivable
    /\ Suspend(FirstFree, NewCall("join_interview", "join_find"))
    /\ events' = events - 1
    /\ UNCHANGED <<wall, socket, session, interview, activeSessions, hintsSent>>

\* join_interview after Interview.findOne: the room is joined before the
\* started interview is saved
JoinFound ==
    /\ UNCHANGED notServerVars
    /\ UNCHANGED <<interactions, completions>>
    /\ \E c \in Slots, found \in {"rejected", "refused", "found"} :
          /\ calls[c].pc = "join_find"
          /\ IF found # "found"
             THEN /\ Finish(c, calls[c], {"error"})
                  /\ UNCHANGED socket
             ELSE /\ socket' = [socket EXCEPT !.currentSession = TRUE]
                  /\ IF interview.status = "scheduled"
                     THEN Suspend(c, [calls[c] EXCEPT !.pc = "join_save"])
                     ELSE Finish(c, calls[c], {"joined_interview"})
    /\ UNCHANGED <<wall, session, interview, activeSessions, hintsSent, events>>

\* join_interview after await interview.save()
JoinSaved ==
    /\ UNCHANGED notServerVars
    /\ UNCHANGED <<interactions, completions>>
    /\ \E c \in Slots, saved \in BOOLEAN :
          /\ calls[c].pc = "join_save"
          /\ IF saved
             THEN /\ interview' = [interview EXCEPT !.status = "in_progress"]
                  /\ Finish(c, calls[c], {"joined_interview"})
             ELSE /\ Finish(c, calls[c], {"error"})
                  /\ UNCHANGED interview
    /\ UNCHANGED <<wall, socket, session, activeSessions, hintsSent, events>>

\* socket.on('start_interview_session') up to the await in startInterviewSession
StartInterviewSession ==
    /\ UNCHANGED notServerVars
    /\ UNCHANGED <<interactions, completions>>
    /\ Receivable
    /\ LET rec == NewCall("start_interview_session", "start_save")
       IN  IF socket.interviewSession
           THEN Finish(FirstFree, rec, {"interview_session_started"})
           ELSE Suspend(FirstFree, rec)
    /\ events' = events - 1
    /\ UNCHANGED <<wall, socket, session, interview, activeSessions, hintsSent>>

\* startInterviewSession after await interviewSession.save(), and the rest of
\* the start_interview_session handler
SessionSaved ==
    /\ UNCHANGED notServerVars
    /\ UNCHANGED <<interactions, completions>>
    /\ \E c \in Slots, saved \in BOOLEAN :
          /\ calls[c].pc = "start_save"
          /\ IF saved
             THEN /\ socket' = [socket EXCEPT !.interviewSession = TRUE,
                                              !.created = @ + 1]
                  /\ session' = NewSession(socket.created + 1)
                  /\ Finish(c, calls[c], {"interview_session_started"})
             ELSE /\ Finish(c, calls[c], {"error"})
                  /\ UNCHANGED <<socket, session>>
    /\ UNCHANGED <<wall, interview, activeSessions, hintsSent, events>>

\* code_change from the length check to await analyzeCodeInRealTime, for a
\* call record rec in slot c
CodeChangeCount(c, rec, code) ==
    IF code = "short"
    THEN /\ Finish(c, rec, {})
         /\ UNCHANGED <<socket, session>>
    ELSE /\ IF socket.interviewSession
            THEN /\ socket' = [socket EXCEPT !.codeChangeCount = @ + 1]
                 /\ session' = [session EXCEPT
                                   !.codeChanges = socket.codeChangeCount + 1]
            ELSE UNCHANGED <<socket, session>>
         /\ Suspend(c, [rec EXCEPT !.pc = "cc_analyze",
                                   !.changed = @ \/ socket.interviewSession])

\* socket.on('code_change') up to its first await
CodeChange ==
    /\ UNCHANGED notServerVars
    /\ UNCHANGED <<interactions, completions>>
    /\ Receivable
    /\ \E code \in {"short", "long"} :
          IF socket.currentSession
          THEN /\ Suspend(FirstFree,
                          [NewCall("code_change", "cc_find") EXCEPT !.code = code])
               /\ UNCHANGED <<socket, session>>
          ELSE CodeChangeCount(FirstFree,
                               [NewCall("code_change", "cc_start") EXCEPT
                                   !.code = code],
                               code)
    /\ events' = events - 1
    /\ UNCHANGED <<wall, interview, activeSessions, hintsSent>>

\* code_change after await Interview.findOne
CodeChangeFound ==
    /\ UNCHANGED notServerVars
    /\ UNCHANGED <<interactions, completions>>
    /\ \E c \in Slots, found \in BOOLEAN :
          /\ calls[c].pc = "cc_find"
          /\ IF found
             THEN CodeChangeCount(c, [calls[c] EXCEPT !.hasInterview = TRUE],
                                  calls[c].code)
             ELSE /\ Finish(c, calls[c], {"error"})
                  /\ UNCHANGED <<socket, session>>
    /\ UNCHANGED <<wall, interview, activeSessions, hintsSent, events>>

\* code_change after await analyzeCodeInRealTime (which never rejects and
\* stores lastAnalysis under the client's sessionId) up to code_analysis;
\* saveAIInteraction stores the interaction or fails silently
CodeChangeAnalyzed ==
    /\ UNCHANGED notServerVars
    /\ UNCHANGED completions
    /\ \E c \in Slots, syntaxErrorCount \in {0, 1}, stored \in BOOLEAN :
          /\ calls[c].pc = "cc_analyze"
          /\ interactions' =
                IF stored
                THEN Append(interactions, Interaction(ClientSessionId, "code_analysis", 0))
                ELSE interactions
          /\ activeSessions' = StoreAnalysis(AnalysisKey, "own")
          /\ session' = IF socket.interviewSession
                        THEN [session EXCEPT !.syntaxErrors = @ + syntaxErrorCount]
                        ELSE session
          /\ LET rec == [calls[c] EXCEPT
                            !.emitted = @ \cup {"code_analysis"},
                            !.changed = @ \/ (socket.interviewSession
                                              /\ syntaxErrorCount > 0)]
             IN  IF calls[c].hasInterview
                 THEN Suspend(c, [rec EXCEPT !.pc = "cc_save"])
                 ELSE Finish(c, rec, {})
    /\ UNCHANGED <<wall, socket, interview, hintsSent, events>>

\* code_change after await interview.save()
CodeChangeSaved ==
    /\ UNCHANGED notServerVars
    /\ UNCHANGED <<interactions, completions>>
    /\ \E c \in Slots, saved \in BOOLEAN :
          /\ calls[c].pc = "cc_save"
          /\ IF saved
             THEN /\ interview' = [interview EXCEPT !.codeSubmissions = @ + 1]
                  /\ Finish(c, calls[c], {})
             ELSE /\ Finish(c, calls[c], {"error"})
                  /\ UNCHANGED interview
    /\ UNCHANGED <<wall, socket, session, activeSessions, hintsSent, events>>

\* socket.on('request_hint') up to await Interview.findOne
RequestHint ==
    /\ UNCHANGED notServerVars
    /\ UNCHANGED <<interactions, completions>>
    /\ Receivable
    /\ LET rec == NewCall("request_hint", "rh_find")
       IN  IF socket.currentSession
           THEN Suspend(FirstFree, rec)
           ELSE Finish(FirstFree, rec, {"error"})
    /\ events' = events - 1
    /\ UNCHANGED <<wall, socket, session, interview, activeSessions, hintsSent>>

\* request_hint after await Interview.findOne
HintInterviewFound ==
    /\ UNCHANGED notServerVars
    /\ UNCHANGED <<interactions, completions>>
    /\ \E c \in Slots, found \in BOOLEAN :
          /\ calls[c].pc = "rh_find"
          /\ IF found
             THEN Suspend(c, [calls[c] EXCEPT !.pc = "rh_hint"])
             ELSE Finish(c, calls[c], {"error"})
    /\ UNCHANGED <<wall, socket, session, interview, activeSessions, hintsSent, events>>

\* request_hint after await codeAnalysisService.generateHint, which stores
\* the hint under the room's id unless the AI backend failed, in which case
\* it returns the fallback hint
HintGenerated ==
    /\ UNCHANGED notServerVars
    /\ UNCHANGED <<interactions, completions>>
    /\ \E c \in Slots, generated \in BOOLEAN :
          /\ calls[c].pc = "rh_hint"
          /\ activeSessions' = IF generated THEN StoreHint("interview", "own")
                               ELSE activeSessions
          /\ Suspend(c, [calls[c] EXCEPT !.pc = "rh_save"])
    /\ UNCHANGED <<wall, socket, session, interview, hintsSent, events>>

\* request_hint after await interview.save(): hint_provided goes to the room
HintSaved ==
    /\ UNCHANGED notServerVars
    /\ UNCHANGED <<interactions, completions>>
    /\ \E c \in Slots, saved \in BOOLEAN :
          /\ calls[c].pc = "rh_save"
          /\ IF saved
             THEN /\ interview' = [interview EXCEPT !.hints = @ + 1]
                  /\ hintsSent' = Append(hintsSent, wall)
                  /\ Finish(c, calls[c], {"hint_provided"})
             ELSE /\ Finish(c, calls[c], {"error"})
                  /\ UNCHANGED <<interview, hintsSent>>
    /\ UNCHANGED <<wall, socket, session, activeSessions, events>>

\* socket.on('run_tests') up to await codeExecutionService.executeTests; the
\* candidate sends the code and test cases of the problem being attempted
RunTests ==
    /\ UNCHANGED notServerVars
    /\ UNCHANGED <<interactions, completions>>
    /\ Receivable
    /\ \E attempted \in ProblemIds :
          Suspend(FirstFree, [NewCall("run_tests", "rt_exec")
                                 EXCEPT !.problem = attempted])
    /\ events' = events - 1
    /\ UNCHANGED <<wall, socket, session, interview, activeSessions, hintsSent>>

\* run_tests after executeTests returned one of resultLists: the session is
\* updated, then saved
RunTestsExecutedOf(resultLists) ==
    /\ UNCHANGED notServerVars
    /\ UNCHANGED <<interactions, completions>>
    /\ \E c \in Slots, testResults \in resultLists :
          /\ calls[c].pc = "rt_exec"
          /\ IF socket.interviewSession
             THEN LET passedTests ==
                          Cardinality({i \in 1..Len(testResults) : testResults[i]})
                      totalTests == Len(testResults)
                      overallScore == SubmissionScore(passedTests, totalTests)
                      codeSubmission ==
                          [ problemId |-> CurrentProblemIndex,
                            attempted |-> calls[c].problem,
                            testResults |-> testResults,
                            overallScore |-> overallScore,
                            totalTests |-> totalTests,
                            passedTests |-> passedTests,
                            failedTests |-> totalTests - passedTests ]
                      submissions == Append(session.codeSubmissions, codeSubmission)
                  IN  /\ session' = [session EXCEPT
                             !.codeSubmissions = submissions,
                             !.problems[CurrentProblemIndex] =
                                 [ score |-> overallScore,
                                   attempts |-> @.attempts + 1,
                                   completed |-> overallScore >= PassThreshold ],
                             !.overallScore = calculateOverallScore(submissions)]
                      /\ Suspend(c, [calls[c] EXCEPT !.pc = "rt_save",
                                                     !.changed = TRUE])
             ELSE /\ Suspend(c, [calls[c] EXCEPT !.pc = "rt_ai"])
                  /\ UNCHANGED session
    /\ UNCHANGED <<wall, socket, interview, activeSessions, hintsSent, events>>

RunTestsExecuted == RunTestsExecutedOf(ResultLists(MaxResults))

\* a session whose candidate only runs tests, on at most MaxRunResults test
\* cases: the state after start_interview_session has been handled
MaxRunEvents == 2

MaxRunResults == 3

RunTestsExecutedOfRuns == RunTestsExecutedOf(ResultLists(MaxRunResults))

RunsInit ==
    /\ wall = 0
    /\ socket = [ connected |-> TRUE, currentSession |-> FALSE,
                  interviewSession |-> TRUE, codeChangeCount |-> 0, created |-> 1 ]
    /\ session = NewSession(1)
    /\ interview = [status |-> "scheduled", hints |-> 0, codeSubmissions |-> 0]
    /\ activeSessions = [k \in SessionKeys |-> NoEntry]
    /\ calls = [c \in Slots |-> NoCall]
    /\ done = Outcome(NoCall, {})
    /\ hintsSent = <<>>
    /\ events = MaxRunEvents
    /\ interactions = <<>>
    /\ completions = {}

\* run_tests after await socket.interviewSession.save()
RunTestsSaved ==
    /\ UNCHANGED notServerVars
    /\ UNCHANGED <<interactions, completions>>
    /\ \E c \in Slots, saved \in BOOLEAN :
          /\ calls[c].pc = "rt_save"
          /\ IF saved
             THEN Suspend(c, [calls[c] EXCEPT !.pc = "rt_ai"])
             ELSE Finish(c, calls[c], {"error"})
    /\ UNCHANGED <<wall, socket, session, interview, activeSessions, hintsSent, events>>

\* run_tests after await aiService.generateTestBasedResponse up to
\* test_results; saveAIInteraction stores the feedback or fails silently
RunTestsAnswered ==
    /\ UNCHANGED notServerVars
    /\ UNCHANGED completions
    /\ \E c \in Slots, answered \in BOOLEAN, stored \in BOOLEAN :
          /\ calls[c].pc = "rt_ai"
          /\ IF ~answered
             THEN /\ ~stored
                  /\ Finish(c, calls[c], {"error"})
                  /\ UNCHANGED interactions
             ELSE /\ interactions' =
                        IF stored
                        THEN Append(interactions,
                                    Interaction(TestSessionId, "test_feedback", 0))
                        ELSE interactions
                  /\ LET rec == [calls[c] EXCEPT !.emitted = @ \cup {"test_results"}]
                     IN  IF socket.currentSession
                         THEN Suspend(c, [rec EXCEPT !.pc = "rt_update"])
                         ELSE Finish(c, rec, {})
    /\ UNCHANGED <<wall, socket, session, interview, activeSessions, hintsSent, events>>

\* run_tests after Interview.findOne and interview.save() of the joined room
RunTestsInterviewUpdated ==
    /\ UNCHANGED notServerVars
    /\ UNCHANGED <<interactions, completions>>
    /\ \E c \in Slots, updated \in BOOLEAN :
          /\ calls[c].pc = "rt_update"
          /\ Finish(c, calls[c], IF updated THEN {} ELSE {"error"})
    /\ UNCHANGED <<wall, socket, session, interview, activeSessions, hintsSent, events>>

\* socket.on('complete_interview_session') up to await
\* aiService.generateInterviewAssessment
CompleteSession ==
    /\ UNCHANGED notServerVars
    /\ UNCHANGED <<interactions, completions>>
    /\ Receivable
    /\ LET rec == NewCall("complete_interview_session", "cs_ai")
       IN  IF socket.interviewSession
           THEN Suspend(FirstFree, rec)
           ELSE Finish(FirstFree, rec, {"error"})
    /\ events' = events - 1
    /\ UNCHANGED <<wall, socket, session, interview, activeSessions, hintsSent>>

\* complete_interview_session after the assessment: the session is marked
\* completed, then saved
SessionAssessed ==
    /\ UNCHANGED notServerVars
    /\ UNCHANGED <<interactions, completions>>
    /\ \E c \in Slots, assessed \in BOOLEAN :
          /\ calls[c].pc = "cs_ai"
          /\ IF assessed
             THEN /\ session' = [session EXCEPT !.status = "completed"]
                  /\ Suspend(c, [calls[c] EXCEPT
                                    !.pc = "cs_save",
                                    !.changed = @ \/ session.status # "completed"])
             ELSE /\ Finish(c, calls[c], {"error"})
                  /\ UNCHANGED session
    /\ UNCHANGED <<wall, socket, interview, activeSessions, hintsSent, events>>

\* complete_interview_session after await socket.interviewSession.save() and
\* await AIInteraction.find, up to interview_session_completed: the
\* interview_completion document is built only from a non-empty find and
\* saveAIInteraction stores it or fails silently; a rejected save or find
\* ends in the error event
SessionCompleted ==
    /\ UNCHANGED notServerVars
    /\ \E c \in Slots, saved \in BOOLEAN, stored \in BOOLEAN :
          /\ calls[c].pc = "cs_save"
          /\ IF ~saved
             THEN /\ ~stored
                  /\ Finish(c, calls[c], {"error"})
                  /\ UNCHANGED <<interactions, completions>>
             ELSE LET sessionId == SessionId(session.id)
                      totalInteractions == FoundInteractions(sessionId)
                  IN  /\ interactions' =
                            IF totalInteractions > 0 /\ stored
                            THEN Append(interactions,
                                        Interaction(sessionId, "interview_completion",
                                                    totalInteractions))
                            ELSE interactions
                      /\ completions' = completions \cup {session.id}
                      /\ Finish(c, calls[c], {"interview_session_completed"})
    /\ UNCHANGED <<wall, socket, session, interview, activeSessions, hintsSent, events>>

\* socket.on('disconnect')
Disconnect ==
    /\ UNCHANGED notServerVars
    /\ UNCHANGED <<interactions, completions>>
    /\ socket.connected
    /\ socket' = [socket EXCEPT !.connected = FALSE]
    /\ activeSessions' = IF socket.currentSession THEN clearSession("interview")
                         ELSE activeSessions
    /\ UNCHANGED <<wall, session, interview, calls, done, hintsSent, events>>

\* code_change of another CandidateCoding connection, after its await
\* analyzeCodeInRealTime: its event carries the same sessionId
PeerCodeChange ==
    /\ UNCHANGED notServerVars
    /\ UNCHANGED <<interactions, completions>>
    /\ activeSessions["candidate-session"].lastAnalysis # "peer"
    /\ activeSessions' = StoreAnalysis("candidate-session", "peer")
    /\ UNCHANGED <<wall, socket, session, interview, calls, done, hintsSent, events>>

\* time passes on the server
WallTick ==
    /\ UNCHANGED notServerVars
    /\ UNCHANGED <<interactions, completions>>
    /\ wall + WallStep <= MaxWall
    /\ wall' = wall + WallStep
    /\ UNCHANGED <<socket, session, interview, activeSessions, calls, done, hintsSent,
                   events>>

(***************************************************************************)
(* CodeAnalysisService.analyzeCodeInRealTime                               *)
(***************************************************************************)
\* the characters of the codes that are analysed
AnalyzeAlphabet == {" ", "x", "{", "("}

\* a code_change event without a language
NoLanguage == <<"undefined">>

AnalyzeLanguages == {<<"j", "s">>, <<"J", "S">>, <<"j", "a", "v", "a">>, NoLanguage}

\* (code.match(/c/g) || []).length
CountChar(s, c) == Cardinality({i \in 1..Len(s) : s[i] = c})

\* String.prototype.includes
Includes(s, sub) ==
    \E i \in 1..(Len(s) - Len(sub) + 1) : SubSeq(s, i, i + Len(sub) - 1) = sub

\* CodeAnalysisService.validateJavaScript
validateJavaScript(code) ==
    (IF CountChar(code, "{") # CountChar(code, "}")
     THEN {"Mismatched curly braces"} ELSE {})
    \cup (IF CountChar(code, "(") # CountChar(code, ")")
          THEN {"Mismatched parentheses"} ELSE {})
    \cup (IF Includes(code, <<"=", "=", "=">>) /\ Includes(code, <<"=", "=">>)
          THEN {"Consider using consistent equality operators (=== vs ==)"} ELSE {})
    \cup (IF Includes(code, <<"v", "a", "r", " ">>)
          THEN {"Consider using let or const instead of var"} ELSE {})

\* CodeAnalysisService.validateJava, for codes shorter than 'class '
validateJava(code) ==
    {"Missing main method"}
    \cup (IF Includes(code, <<"c", "l", "a", "s", "s", " ">>)
          THEN {} ELSE {"Missing class declaration"})

\* CodeAnalysisService.validateSyntax, for a language that is a string
validateSyntax(code, language) ==
    LET lower == ToLowerCase(language)
    IN  IF lower \in {<<"j", "a", "v", "a", "s", "c", "r", "i", "p", "t">>, <<"j", "s">>}
        THEN validateJavaScript(code)
        ELSE IF lower = <<"j", "a", "v", "a">>
             THEN validateJava(code)
             ELSE {}

\* the codeMetrics of getEmptyCodeAnalysis and getErrorAnalysis: all counts 0,
\* maintainabilityIndex 100 / 'Good' or 50 / 'Fair'
ZeroMetrics(maintainability) ==
    [ characters |-> 0, complexity |-> 0, readability |-> 0,
      maintainabilityIndex |-> maintainability, estimated |-> FALSE ]

\* the codeMetrics of the catch around calculateCodeMetrics
NeutralMetrics(code) ==
    [ characters |-> Len(code), complexity |-> 1, readability |-> 50,
      maintainabilityIndex |-> 50, estimated |-> FALSE ]

\* calculateCodeMetrics where it returns, for a code of one line and a few
\* characters without keywords, operators or comments: complexity is the
\* base 1, readability 100 - 20 for the missing comments, and the
\* maintainability index Math.round(100 - 1 * 2 - halsteadVolume / 100) with
\* a halsteadVolume below 50; estimated tells that the bigO, execution time
\* and memory estimates were computed
ComputedMetrics(code) ==
    [ characters |-> Len(code), complexity |-> 1, readability |-> 80,
      maintainabilityIndex |-> 98, estimated |-> TRUE ]

\* CodeAnalysisService.getEmptyCodeAnalysis
getEmptyCodeAnalysis ==
    [ syntaxErrors |-> {}, logicIssues |-> {}, score |-> 0,
      feedback |-> "Start coding to see analysis",
      codeMetrics |-> ZeroMetrics(100) ]

\* CodeAnalysisService.getErrorAnalysis
getErrorAnalysis ==
    [ syntaxErrors |-> {}, logicIssues |-> {"Code analysis is temporarily unavailable"},
      score |-> 0, feedback |-> "Code analysis is temporarily unavailable.",
      codeMetrics |-> ZeroMetrics(50) ]

\* an answer of aiService.analyzeCode
AiScore == 70

AiAnswer ==
    [ syntaxErrors |-> {}, logicIssues |-> {}, score |-> AiScore, feedback |-> "ai" ]

\* the aiAnalysis of the catch around aiService.analyzeCode
AiUnavailable ==
    [ syntaxErrors |-> {}, logicIssues |-> {"AI analysis temporarily unavailable"},
      score |-> 0, feedback |-> "AI analysis is temporarily unavailable." ]

\* no analysis: the service was not called
NoAnalysis ==
    [ syntaxErrors |-> {}, logicIssues |-> {}, score |-> 0, feedback |-> "",
      codeMetrics |-> ZeroMetrics(0) ]

\* the metrics computation without its catch
UnguardedMetrics(code, metrics) ==
    [ failed |-> metrics = "throws", codeMetrics |-> ComputedMetrics(code) ]

\* try { codeMetrics = this.calculateCodeMetrics(...) } catch { codeMetrics = {...} }
\* failed tells that the exception leaves analyzeCodeInRealTime's inner try
GuardedMetrics(code, metrics) ==
    [ failed |-> FALSE,
      codeMetrics |-> IF metrics = "throws" THEN NeutralMetrics(code)
                      ELSE ComputedMetrics(code) ]

\* analyzeCodeInRealTime: the analysis it resolves with, the heuristics that
\* ran and whether lastAnalysis was stored
analyzeCodeInRealTime(code, language, ai, metrics) ==
    IF Len(Trim(code)) = 0
    THEN [analysis |-> getEmptyCodeAnalysis, ran |-> {}, stored |-> FALSE]
    ELSE IF language = NoLanguage
    THEN [analysis |-> getErrorAnalysis, ran |-> {"syntax"}, stored |-> FALSE]
    ELSE LET syntaxErrors == validateSyntax(code, language)
             aiAnalysis == IF ai = "rejects" THEN AiUnavailable ELSE AiAnswer
             measured == GuardedMetrics(code, metrics)
         IN  IF measured.failed
             THEN [analysis |-> getErrorAnalysis, ran |-> {"syntax", "ai", "metrics"},
                   stored |-> FALSE]
             ELSE [analysis |->
                       [ syntaxErrors |-> syntaxErrors \cup aiAnalysis.syntaxErrors,
                         logicIssues |-> aiAnalysis.logicIssues,
                         score |-> aiAnalysis.score,
                         feedback |-> aiAnalysis.feedback,
                         codeMetrics |-> measured.codeMetrics ],
                   ran |-> {"syntax", "ai", "metrics"}, stored |-> TRUE]

\* the guard of the service used as the guard of the handler
ShortCodeEmpty(code) == Len(Trim(code)) = 0

\* if (!code || code.trim().length < 3) return; in the code_change handler
ShortCode(code) == Len(Trim(code)) < 3

AnalyzeInit ==
    /\ anCode \in SeqsUpTo(AnalyzeAlphabet, MaxLen)
    /\ anLanguage \in AnalyzeLanguages
    /\ anAi \in {"answers", "rejects"}
    /\ anMetrics \in {"returns", "throws"}
    /\ anPc = "input"
    /\ anResult = NoAnalysis
    /\ anRan = {}
    /\ anEmitted = FALSE

AnalyzeIdle ==
    /\ anCode = <<>>
    /\ anLanguage = NoLanguage
    /\ anAi = "answers"
    /\ anMetrics = "returns"
    /\ anPc = "input"
    /\ anResult = NoAnalysis
    /\ anRan = {}
    /\ anEmitted = FALSE

\* a call of codeAnalysisService.analyzeCodeInRealTime
Analyze ==
    /\ UNCHANGED notAnalyzeVars
    /\ anPc = "input"
    /\ LET r == analyzeCodeInRealTime(anCode, anLanguage, anAi, anMetrics)
       IN  /\ anResult' = r.analysis
           /\ anRan' = r.ran
    /\ anPc' = "analyzed"
    /\ UNCHANGED <<anCode, anLanguage, anAi, anMetrics, anEmitted>>

\* socket.on('code_change') of a connection without an interview: the length
\* guard, the analysis and the code_analysis event
CodeChangeAnalysis ==
    /\ UNCHANGED notAnalyzeVars
    /\ anPc = "input"
    /\ IF ShortCode(anCode)
       THEN UNCHANGED <<anResult, anRan, anEmitted>>
       ELSE LET r == analyzeCodeInRealTime(anCode, anLanguage, anAi, anMetrics)
            IN  /\ anResult' = r.analysis
                /\ anRan' = r.ran
                /\ anEmitted' = TRUE
    /\ anPc' = "handled"
    /\ UNCHANGED <<anCode, anLanguage, anAi, anMetrics>>

(***************************************************************************)
(* CodeAnalysisService: estimateBigO, calculateCyclomaticComplexity and    *)
(* calculateMaintainabilityIndex                                           *)
(*                                                                         *)
(* A source text is a sequence of lexemes; the regular expressions and     *)
(* substring tests of the code are evaluated on the lexemes.  "blanks" is  *)
(* a run of PadLength spaces.  The sources considered are the texts made   *)
(* of at most MaxChunks snippets.                                          *)
(***************************************************************************)
MaxChunks == 4

PadLength == 512

Lexemes == {"for", "(", ")", "blanks", ".sort", "binarySearch"}

\* the number of characters of a lexeme
Chars(lexeme) ==
    CASE lexeme = "for" -> 3
      [] lexeme = "(" -> 1
      [] lexeme = ")" -> 1
      [] lexeme = "blanks" -> PadLength
      [] lexeme = ".sort" -> 5
      [] lexeme = "binarySearch" -> 12

\* the lexeme's first / last character is a word character (\w)
StartsWithWord(lexeme) == lexeme \in {"for", "binarySearch"}

EndsInWord(lexeme) == lexeme \in {"for", ".sort", "binarySearch"}

LoopHeader == <<"for", "(", ")">>

OpenHeader == <<"for", "(">>

SortCall == <<".sort", "(", ")">>

Snippets == {LoopHeader, OpenHeader, SortCall, <<"binarySearch">>, <<"blanks">>}

RECURSIVE SourcesOf(_)
SourcesOf(n) ==
    IF n = 0 THEN {<<>>}
    ELSE LET shorter == SourcesOf(n - 1)
         IN  shorter \cup {c \o sn : c \in shorter, sn \in Snippets}

Sources == SourcesOf(MaxChunks)

\* code.length
RECURSIVE CodeLength(_)
CodeLength(code) ==
    IF code = <<>> THEN 0 ELSE Chars(Head(code)) + CodeLength(Tail(code))

RECURSIVE SkipBlanks(_, _)
SkipBlanks(code, i) ==
    IF i <= Len(code) /\ code[i] = "blanks" THEN SkipBlanks(code, i + 1) ELSE i

\* for\s*\( matched at lexeme i: the position after the parenthesis, else 0
OpenAt(code, i) ==
    IF i <= Len(code) /\ code[i] = "for"
    THEN LET j == SkipBlanks(code, i + 1)
         IN  IF j <= Len(code) /\ code[j] = "(" THEN j + 1 ELSE 0
    ELSE 0

\* [^)]*\) matched from position k: the position of the first ")", else 0
RECURSIVE FirstClose(_, _)
FirstClose(code, k) ==
    IF k > Len(code) THEN 0
    ELSE IF code[k] = ")" THEN k ELSE FirstClose(code, k + 1)

\* /for\s*\([^)]*\)/ matched at lexeme i: the position of its last lexeme
SingleLoopAt(code, i) ==
    IF OpenAt(code, i) = 0 THEN 0 ELSE FirstClose(code, OpenAt(code, i))

\* /for\s*\([^)]*for\s*\([^)]*\)/ matched at lexeme i: a second for( lies
\* before the first ")" that follows the first for(
NestedLoopAt(code, i) ==
    LET k == OpenAt(code, i)
        e == FirstClose(code, k)
    IN  IF k # 0 /\ e # 0 /\ \E p \in k..(e - 1) : OpenAt(code, p) \in 1..e
        THEN e ELSE 0

\* (code.match(/for\s*\([^)]*for\s*\([^)]*\)/g) || []).length
RECURSIVE NestedLoops(_, _)
NestedLoops(code, i) ==
    IF i > Len(code) THEN 0
    ELSE IF NestedLoopAt(code, i) # 0
         THEN 1 + NestedLoops(code, NestedLoopAt(code, i) + 1)
         ELSE NestedLoops(code, i + 1)

\* (code.match(/for\s*\([^)]*\)/g) || []).length
RECURSIVE SingleLoops(_, _)
SingleLoops(code, i) ==
    IF i > Len(code) THEN 0
    ELSE IF SingleLoopAt(code, i) # 0
         THEN 1 + SingleLoops(code, SingleLoopAt(code, i) + 1)
         ELSE SingleLoops(code, i + 1)

\* code.includes('.sort(') || code.includes('sort(')
IncludesSort(code) ==
    \E i \in 1..(Len(code) - 1) : code[i] = ".sort" /\ code[i + 1] = "("

\* code.includes('binarySearch') || code.includes('binary_search')
IncludesBinarySearch(code) ==
    \E i \in 1..Len(code) : code[i] = "binarySearch"

Label(complexity, score) == [complexity |-> complexity, score |-> score]

\* four independent if statements, each overwriting complexity and score
estimateBigO(code) ==
    LET nestedLoops == NestedLoops(code, 1)
        singleLoops == SingleLoops(code, 1)
        afterNested == IF nestedLoops > 0 THEN Label("O(n^2)", 1) ELSE Label("O(1)", 0)
        afterSingle == IF singleLoops > 0 /\ nestedLoops = 0
                       THEN Label("O(n)", 2) ELSE afterNested
        afterSort == IF IncludesSort(code) THEN Label("O(n log n)", 3) ELSE afterSingle
    IN  IF IncludesBinarySearch(code) THEN Label("O(log n)", 4) ELSE afterSort

\* the matches of /\bfor\b/g; no other decision point occurs in the lexemes
ForWords(code) ==
    Cardinality({i \in 1..Len(code) :
        /\ code[i] = "for"
        /\ i > 1 => ~EndsInWord(code[i - 1])
        /\ i < Len(code) => ~StartsWithWord(code[i + 1])})

calculateCyclomaticComplexity(code) ==
    LET complexity == 1 + ForWords(code)
    IN  [ value |-> complexity,
          level |-> IF complexity <= 10 THEN "Low"
                    ELSE IF complexity <= 20 THEN "Medium" ELSE "High",
          maintainable |-> complexity <= 10 ]

\* Math.log2 to FractionBits binary places, in units of 1 / Unit
FractionBits == 10

RECURSIVE PowerOfTwo(_)
PowerOfTwo(k) == IF k = 0 THEN 1 ELSE 2 * PowerOfTwo(k - 1)

Unit == PowerOfTwo(FractionBits)

RECURSIVE FloorLog2(_)
FloorLog2(n) == IF n < 2 THEN 0 ELSE 1 + FloorLog2(n \div 2)

\* the binary places of log2(m / Unit) for Unit <= m < 2 * Unit
RECURSIVE Fraction(_, _)
Fraction(m, bits) ==
    IF bits = 0 THEN 0
    ELSE LET square == (m * m) \div Unit
         IN  IF square >= 2 * Unit
             THEN PowerOfTwo(bits - 1) + Fraction(square \div 2, bits - 1)
             ELSE Fraction(square, bits - 1)

Log2(n) ==
    LET k == FloorLog2(n)
    IN  k * Unit + Fraction((n * Unit) \div PowerOfTwo(k), FractionBits)

\* Math.max(0, 100 - cyclomaticComplexity.value * 2 - halsteadVolume / 100)
\* in units of 1 / (100 * Unit), without the lower clamp
MaintainabilityUnclamped(cyclomatic, length) ==
    LET halsteadVolume == length * Log2(IF length = 0 THEN 1 ELSE length)
        maintainabilityIndex == (100 - cyclomatic * 2) * 100 * Unit - halsteadVolume
    IN  [ value |-> (maintainabilityIndex + 50 * Unit) \div (100 * Unit),
          level |-> IF maintainabilityIndex >= 70 * 100 * Unit THEN "Good"
                    ELSE IF maintainabilityIndex >= 50 * 100 * Unit THEN "Fair"
                    ELSE "Poor" ]

\* the same with the clamp; value is Math.round(maintainabilityIndex)
Maintainability(cyclomatic, length) ==
    LET halsteadVolume == length * Log2(IF length = 0 THEN 1 ELSE length)
        unclamped == (100 - cyclomatic * 2) * 100 * Unit - halsteadVolume
        maintainabilityIndex == IF unclamped > 0 THEN unclamped ELSE 0
    IN  [ value |-> (maintainabilityIndex + 50 * Unit) \div (100 * Unit),
          level |-> IF maintainabilityIndex >= 70 * 100 * Unit THEN "Good"
                    ELSE IF maintainabilityIndex >= 50 * 100 * Unit THEN "Fair"
                    ELSE "Poor" ]

calculateMaintainabilityIndex(code) ==
    Maintainability(calculateCyclomaticComplexity(code).value, CodeLength(code))

NoMetric ==
    [ fn |-> "none", complexity |-> "none", score |-> 0, value |-> 0,
      level |-> "none", cyclomatic |-> 0 ]

MetricInit ==
    /\ mtCode \in Sources
    /\ mtResult = NoMetric

MetricIdle ==
    /\ mtCode = <<>>
    /\ mtResult = NoMetric

EstimateBigO ==
    /\ UNCHANGED notMetricVars
    /\ mtResult = NoMetric
    /\ LET bigO == estimateBigO(mtCode)
       IN  mtResult' = [NoMetric EXCEPT !.fn = "estimateBigO",
                                        !.complexity = bigO.complexity,
                                        !.score = bigO.score]
    /\ UNCHANGED mtCode

CalculateMaintainabilityIndex ==
    /\ UNCHANGED notMetricVars
    /\ mtResult = NoMetric
    /\ LET index == calculateMaintainabilityIndex(mtCode)
       IN  mtResult' = [NoMetric EXCEPT !.fn = "calculateMaintainabilityIndex",
                                        !.value = index.value,
                                        !.level = index.level,
                                        !.cyclomatic =
                                            calculateCyclomaticComplexity(mtCode).value]
    /\ UNCHANGED mtCode

(***************************************************************************)
(* Specifications                                                          *)
(***************************************************************************)
InitCompare == CompareInit /\ ExecIdle /\ ClientIdle /\ ServerIdle /\ AnalyzeIdle /\ MetricIdle

NextCompare == Compare

SpecCompare == InitCompare /\ [][NextCompare]_vars

InitExec == ExecInit /\ CompareIdle /\ ClientIdle /\ ServerIdle /\ AnalyzeIdle /\ MetricIdle

NextExec ==
    \/ \E r \in Runs : StartRun(r)
    \/ ChildError
    \/ InterpreterClose
    \/ CompileClose
    \/ BinaryClose
    \/ \E r \in Runs : RunTestsRespond(r)
    \/ Tick

SpecExec == InitExec /\ [][NextExec]_vars

InitExecPair ==
    ExecPairInit /\ CompareIdle /\ ClientIdle /\ ServerIdle /\ AnalyzeIdle /\ MetricIdle

NextExecPair ==
    \/ \E r \in Runs : StartRunOfPair(r)
    \/ ChildError
    \/ InterpreterClose
    \/ \E r \in Runs : RunTestsRespond(r)
    \/ Tick

SpecExecPair == InitExecPair /\ [][NextExecPair]_vars

InitClient == ClientInit /\ CompareIdle /\ ExecIdle /\ ServerIdle /\ AnalyzeIdle /\ MetricIdle

NextClient ==
    \/ EditCode
    \/ ChangeLanguage
    \/ CompleteInterview
    \/ DismissDialog
    \/ ToggleAI
    \/ PreviousProblem
    \/ Speak
    \/ SpeechResult
    \/ SpeechFails
    \/ DebounceFires
    \/ MonitorFires
    \/ CooldownTimeoutFires
    \/ CooldownIntervalClears
    \/ EmitFires
    \/ ReceiveAnalysis
    \/ ReceiveAudioResponse
    \/ StuckFires
    \/ Advance

SpecClient == InitClient /\ [][NextClient]_vars

InitServer == ServerInit /\ CompareIdle /\ ExecIdle /\ ClientIdle /\ AnalyzeIdle /\ MetricIdle

NextServer ==
    \/ JoinInterview
    \/ JoinFound
    \/ JoinSaved
    \/ StartInterviewSession
    \/ SessionSaved
    \/ CodeChange
    \/ CodeChangeFound
    \/ CodeChangeAnalyzed
    \/ CodeChangeSaved
    \/ RequestHint
    \/ HintInterviewFound
    \/ HintGenerated
    \/ HintSaved
    \/ RunTests
    \/ RunTestsExecuted
    \/ RunTestsSaved
    \/ RunTestsAnswered
    \/ RunTestsInterviewUpdated
    \/ CompleteSession
    \/ SessionAssessed
    \/ SessionCompleted
    \/ Disconnect
    \/ PeerCodeChange
    \/ WallTick

SpecServer == InitServer /\ [][NextServer]_vars

\* the handlers of the events that a CandidateCoding page sends: it never
\* joins an interview room and never requests a hint
InitCandidate == CandidateInit /\ CompareIdle /\ ExecIdle /\ ClientIdle /\ AnalyzeIdle /\ MetricIdle

NextCandidate ==
    \/ StartInterviewSession
    \/ SessionSaved
    \/ CodeChange
    \/ CodeChangeAnalyzed
    \/ RunTests
    \/ RunTestsExecuted
    \/ RunTestsSaved
    \/ RunTestsAnswered
    \/ CompleteSession
    \/ SessionAssessed
    \/ SessionCompleted
    \/ Disconnect
    \/ PeerCodeChange

SpecCandidate == InitCandidate /\ [][NextCandidate]_vars

InitAnalyze == AnalyzeInit /\ CompareIdle /\ ExecIdle /\ ClientIdle /\ ServerIdle /\ MetricIdle

NextAnalyze ==
    \/ Analyze
    \/ CodeChangeAnalysis

SpecAnalyze == InitAnalyze /\ [][NextAnalyze]_vars

InitRuns ==
    RunsInit /\ CompareIdle /\ ExecIdle /\ ClientIdle /\ AnalyzeIdle /\ MetricIdle

NextRuns ==
    \/ RunTests
    \/ RunTestsExecutedOfRuns
    \/ RunTestsSaved
    \/ RunTestsAnswered

SpecRuns == InitRuns /\ [][NextRuns]_vars

InitMetrics ==
    MetricInit /\ CompareIdle /\ ExecIdle /\ ClientIdle /\ ServerIdle /\ AnalyzeIdle

NextMetrics ==
    \/ EstimateBigO
    \/ CalculateMaintainabilityIndex

SpecMetrics == InitMetrics /\ [][NextMetrics]_vars

\* all whitespace removed
RemoveWhitespace(s) == SelectSeq(s, LAMBDA c : c \notin Whitespace)

\* the whitespace-separated words of s, in order
RECURSIVE Words(_, _, _)
Words(s, cur, acc) ==
    IF s = <<>> THEN (IF cur = <<>> THEN acc ELSE Append(acc, cur))
    ELSE IF Head(s) \in Whitespace
         THEN Words(Tail(s), <<>>, IF cur = <<>> THEN acc ELSE Append(acc, cur))
         ELSE Words(Tail(s), Append(cur, Head(s)), acc)

\* C2 (as stated): outputs that differ only in letter case or in the presence
\* or amount of whitespace compare equal
C2_WhitespaceInsensitive ==
    (cmpDone /\ RemoveWhitespace(ToLowerCase(cmpActual))
                 = RemoveWhitespace(ToLowerCase(cmpExpected)))
        => cmpResult

\* C2 (amended): compareOutputs is true exactly when the two outputs have the
\* same whitespace-separated words up to letter case; the amount of whitespace
\* between two words and around the output is ignored, its presence between
\* two characters is not, so compareOutputs("[1, 2]", "[1,2]") is false
C2_WordwiseEqual ==
    cmpDone =>
        /\ cmpResult <=> (Words(ToLowerCase(cmpActual), <<>>, <<>>)
                           = Words(ToLowerCase(cmpExpected), <<>>, <<>>))
        /\ (cmpActual = SpacedPair /\ cmpExpected = TightPair) => ~cmpResult

C2_Witness ==
    /\ cmpDone
    /\ cmpResult
    /\ cmpActual = <<"a", " ", " ", "A">>
    /\ cmpExpected = <<" ", "A", " ", "a">>

(***************************************************************************)
(* Claims about the executor (SpecExec)                                    *)
(***************************************************************************)
Returned(r) == runs[r].pc \in {"ai", "responded"}

Failures == {"exit1", "timeout", "spawnError", "compileFail", "compileTimeout",
             "compileSpawnError", "unsupported"}

\* C1: the list executeTests returns has one entry per test case, entry i
\* carries the input and expectedOutput of testCases[i], and the entry of an
\* execution that failed has passed = false and an error
C1_ResultPerTestCase ==
    \A r \in Runs :
        Returned(r) =>
            /\ Len(runs[r].results) = Len(runs[r].tests)
            /\ \A i \in 1..Len(runs[r].results) :
                  /\ runs[r].results[i].input = runs[r].tests[i].input
                  /\ runs[r].results[i].expectedOutput = runs[r].tests[i].expectedOutput
                  /\ runs[r].outcomes[i] \in Failures =>
                        /\ ~runs[r].results[i].passed
                        /\ runs[r].results[i].error # NoError

C1_Witness ==
    \E r \in Runs :
        /\ Returned(r)
        /\ runs[r].tests = <<TestCases[2], TestCases[1]>>
        /\ runs[r].outcomes = <<"spawnError", "timeout">>

\* C3 (as stated): in every supported language an entry point that returns
\* the value whose JSON serialisation is the expected output passes
C3_CorrectReturnPasses ==
    \A r \in Runs :
        \A i \in 1..Len(runs[r].results) :
            ( /\ runs[r].outcomes[i] = "ok"
              /\ JsonStringify(ReturnValues[runs[r].values[i]])
                    = runs[r].tests[i].expectedOutput )
                => runs[r].results[i].passed

\* C4 (as stated): a C++ run whose source fails to compile is compiled once
C4_CompiledOncePerRun ==
    \A r \in Runs :
        ( /\ Returned(r)
          /\ runs[r].lang = "c++"
          /\ \E i \in 1..Len(runs[r].outcomes) : runs[r].outcomes[i] = "compileFail" )
            => runs[r].compiles = 1

\* C4 (amended): a C++ run compiles the source once per test case, and every
\* test case whose compilation fails gets its own failed result whose error
\* starts with "Compilation failed: "; there is no batch-level compile error
C4_CompiledPerTestCase ==
    \A r \in Runs :
        (Returned(r) /\ runs[r].lang = "c++") =>
            /\ runs[r].compiles = Len(runs[r].tests)
            /\ Len(runs[r].results) = Len(runs[r].tests)
            /\ \A i \in 1..Len(runs[r].results) :
                  runs[r].outcomes[i] \in {"compileFail", "compileTimeout"} =>
                      /\ ~runs[r].results[i].passed
                      /\ Len(runs[r].results[i].error) >= Len(CompilationFailed)
                      /\ SubSeq(runs[r].results[i].error, 1, Len(CompilationFailed))
                            = CompilationFailed

C4_Witness ==
    \E r \in Runs :
        /\ Returned(r)
        /\ runs[r].lang = "c++"
        /\ runs[r].outcomes = <<"compileFail", "compileFail">>
        /\ runs[r].compiles = 2

\* C5 (as stated): no cleanup fails, and once no execution is in flight no
\* temporary source file or binary is left
C5_CleanupOnEveryPath ==
    /\ ~crashed
    /\ procs = {} => files = {}

C8_CooldownGovernsDispatch ==
    (lastAttempt.at # NoTime /\ lastAttempt.prev # NoTime)
        => (lastAttempt.permitted <=> lastAttempt.at - lastAttempt.prev >= TwoMinutes)

\* C9: a hint event is emitted only when the session's cooldown is not active:
\* no hint_provided follows the session's previous hint_provided by less than
\* two minutes.
C9_HintOnlyOutsideCooldown ==
    \A i \in 2..Len(hintsSent) : hintsSent[i] - hintsSent[i - 1] >= TwoMinutes

\* C10: a handler of code_change, run_tests, request_hint or
\* complete_interview_session that ended in an error left the session's
\* submissions, counters, score and status as they were.
C10_FailureLeavesSessionUntouched ==
    ( /\ done.event \in {"code_change", "run_tests", "request_hint",
                         "complete_interview_session"}
      /\ "error" \in done.emitted )
        => ~done.changed

\* the handlers in flight and the handler that returned last
Handlers == {calls[c] : c \in Slots} \cup {done}

\* C11: once complete_interview_session has succeeded for a session, no
\* code_change or run_tests event that arrives later on the connection changes
\* the session's submissions, problem counters, metrics, score or status.
C11_FrozenAfterCompletion ==
    \A h \in Handlers :
        (h.event \in {"code_change", "run_tests"} /\ h.afterCompletion)
            => ~h.changed

\* the interview_completion documents stored for the session id
CompletionRecords(id) ==
    {i \in 1..Len(interactions) :
        /\ interactions[i].interactionType = "interview_completion"
        /\ interactions[i].sessionId = SessionId(id)}

\* C12: a session is completed at most once: at most one completion record is
\* stored for it, and a complete_interview_session event that arrives after
\* the session's first successful completion neither recomputes the final
\* assessment nor reports a completion again.
C12_CompletedAtMostOnce ==
    /\ \A id \in 1..socket.created : Cardinality(CompletionRecords(id)) <= 1
    /\ \A c \in Slots :
          (calls[c].event = "complete_interview_session" /\ calls[c].afterCompletion)
              => calls[c].pc # "cs_save"
    /\ (done.event = "complete_interview_session" /\ done.afterCompletion)
          => "interview_session_completed" \notin done.emitted

\* the code_analysis and test_feedback interactions stored before the i-th
\* AIInteraction while the socket held the same session
RecordedBefore(i) ==
    {j \in 1..(i - 1) :
        /\ interactions[j].during = interactions[i].during
        /\ interactions[j].interactionType \in {"code_analysis", "test_feedback"}}

\* C13: the total interaction count of every stored completion record is the
\* number of code-analysis and test-feedback interactions that the connection
\* recorded during the session before the completion.
C13_CompletionAggregatesAll ==
    \A i \in 1..Len(interactions) :
        interactions[i].interactionType = "interview_completion"
            => interactions[i].totalInteractions = Cardinality(RecordedBefore(i))

\* the submissions of the session made while the candidate attempted problem p
SubmissionsFor(p) ==
    {i \in 1..Len(session.codeSubmissions) : session.codeSubmissions[i].attempted = p}

\* C14: every run_tests of a session is counted on the problem the candidate
\* was attempting and on no other: the attempts of each problem are the
\* submissions made while attempting it, and they are filed under it.
C14_RunCountsOnCurrentProblem ==
    \A p \in ProblemIds :
        /\ session.problems[p].attempts = Cardinality(SubmissionsFor(p))
        /\ \A i \in SubmissionsFor(p) : session.codeSubmissions[i].problemId = p

\* C15: the latest analysis record of the connection's session is never
\* replaced by an event of another connection.
C15_SessionsIndependent ==
    [][ \A k \in SessionKeys :
            activeSessions[k].lastAnalysis = "own"
                => activeSessions'[k].lastAnalysis # "peer" ]_vars

\* C16: within one session at most one run_tests is executing test cases or
\* updating the session at any time.
C16_OneRunInFlight ==
    socket.interviewSession
        => Cardinality({c \in Slots : /\ calls[c].event = "run_tests"
                                      /\ calls[c].pc \in {"rt_exec", "rt_save"}}) <= 1

\* C17: after the session completed or the connection disconnected, and once
\* no handler is in flight, the analysis service's table holds no entry that
\* was created for the connection.
C17_EntriesReleased ==
    ( /\ ~socket.connected \/ completions # {}
      /\ \A c \in Slots : calls[c].pc = "free" )
        => \A k \in SessionKeys : activeSessions[k].owner # "own"

\* C18: once the candidate has completed the session, no pending
\* cooldown-clearing timer and no deferred code_change or audio_analysis
\* timer fires: the timers that are pending stay pending.
C18_TimersCancelledAtCompletion ==
    [][ inflight.complete => timeouts \subseteq timeouts' ]_vars

\* C19 (as stated): for a source with fewer than 3 trimmed characters a
\* code-changed analysis returns the fixed 'Start coding' result with score 0
\* and runs none of the heuristics.
C19_ShortCodeGetsDefault ==
    (anPc # "input" /\ Len(Trim(anCode)) < 3)
        => (anResult = getEmptyCodeAnalysis /\ anRan = {})

\* C19 (amended): for a source with fewer than 3 trimmed characters the
\* code_change handler runs none of the heuristics and emits no code_analysis
\* at all; the service returns the fixed 'Start coding' result, running no
\* heuristic, exactly for the sources that are empty once trimmed.
C19_ShortCodeNotAnalysed ==
    /\ (anPc = "handled" /\ Len(Trim(anCode)) < 3)
          => (anRan = {} /\ ~anEmitted /\ anResult = NoAnalysis)
    /\ (anPc = "handled" /\ Len(Trim(anCode)) >= 3)
          => (anEmitted /\ anRan # {} /\ anResult # getEmptyCodeAnalysis)
    /\ anPc = "analyzed"
          => ( (anResult = getEmptyCodeAnalysis /\ anRan = {})
                  <=> Len(Trim(anCode)) = 0 )

\* the handler has skipped a source of one or two characters
C19_Witness ==
    /\ anPc = "handled"
    /\ Len(Trim(anCode)) \in {1, 2}
    /\ ~anEmitted

\* the analysis of the code with calculateCodeMetrics returning
Unfailing == analyzeCodeInRealTime(anCode, anLanguage, anAi, "returns").analysis

\* C20 (as stated): analyzeCodeInRealTime always resolves with an analysis,
\* and when a metric computation throws the analysis is the fixed
\* neutral-default result.
C20_MetricFailureGivesFixedResult ==
    (anPc = "analyzed" /\ anMetrics = "throws" /\ Len(Trim(anCode)) > 0)
        => anResult = getErrorAnalysis

\* C20 (amended): analyzeCodeInRealTime always resolves with an analysis; when
\* calculateCodeMetrics throws, the analysis keeps the syntax errors, the AI
\* findings and the score, and only its codeMetrics are the fixed neutral
\* defaults (with the length of the code); the fixed error analysis is
\* returned exactly when syntax validation throws.
C20_MetricFailureKeepsFindings ==
    anPc = "analyzed" =>
        /\ anResult # NoAnalysis
        /\ (anResult = getErrorAnalysis
               <=> (Len(Trim(anCode)) > 0 /\ anLanguage = NoLanguage))
        /\ (anMetrics = "throws" /\ Len(Trim(anCode)) > 0 /\ anLanguage # NoLanguage)
              => anResult = [Unfailing EXCEPT !.codeMetrics = NeutralMetrics(anCode)]

\* a metric computation threw in the analysis of a code with a syntax error
C20_Witness ==
    /\ anPc = "analyzed"
    /\ anMetrics = "throws"
    /\ anLanguage # NoLanguage
    /\ anResult.syntaxErrors # {}
    /\ anResult.codeMetrics = NeutralMetrics(anCode)

\* a trigger of checkForHint holds at the time of the check (idle for more
\* than two minutes, three syntax errors, the structural smell)
HintTrigger ==
    \/ ui.idleStartTime # NoTime /\ clk - ui.idleStartTime > TwoMinutes
    \/ ui.syntaxErrors >= ErrorThreshold
    \/ ui.code = "loops"

\* the check runs when the candidate has been idle for two minutes to the
\* second: the milliseconds decide whether the idle trigger holds
IdleOnTheEdge ==
    ui.idleStartTime # NoTime /\ clk - ui.idleStartTime = TwoMinutes

C22_OneSessionPerConnection ==
    socket.created <= 1

\* the result executeSingleTest gives a test case whose child exited with a
\* non-zero code and wrote nothing to stderr
SilentFailure(r, i) ==
    SingleTestError(i, runs[r].tests[i], ExitErrorMessage(<<>>))

\* C23 (as stated): the result of a test case whose child was killed at the
\* 5 s limit carries a timeout marker, that is, it differs from the result of
\* a child that failed on its own without output
C23_TimeoutCarriesMarker ==
    \A r \in Runs :
        \A i \in 1..Len(runs[r].results) :
            runs[r].outcomes[i] = "timeout" =>
                runs[r].results[i] # SilentFailure(r, i)

\* the label of the first of the rules nested loop, single loop, sort call,
\* binary search that matches
FirstRule(code) ==
    IF NestedLoops(code, 1) > 0 THEN "O(n^2)"
    ELSE IF SingleLoops(code, 1) > 0 THEN "O(n)"
    ELSE IF IncludesSort(code) THEN "O(n log n)"
    ELSE IF IncludesBinarySearch(code) THEN "O(log n)"
    ELSE "O(1)"

\* C24 (as stated): estimateBigO labels a source by the first matching rule
\* in the order nested loop, single loop, sort call, binary search, O(1)
C24_FirstMatchingRuleWins ==
    mtResult.fn = "estimateBigO" => mtResult.complexity = FirstRule(mtCode)

\* three for loops, each the body of the one before
TripleLoop == LoopHeader \o LoopHeader \o LoopHeader

\* C25 (as stated): a source of three nested for loops is labelled O(n^2),
\* the worst label estimateBigO has
C25_TripleLoopIsQuadratic ==
    (mtResult.fn = "estimateBigO" /\ mtCode = TripleLoop)
        => mtResult.complexity = "O(n^2)"

\* the largest number of decision points a source of the given length can
\* hold: a match of a decision point and its word boundary take two characters
MaxDecisions(length) == length \div 2

\* C26: the maintainability index of a source lies in 0..100, and a source
\* of the same length with a higher (lower) cyclomatic complexity has an
\* index that is not higher (not lower)
C26_MaintainabilityMonotoneInRange ==
    mtResult.fn = "calculateMaintainabilityIndex" =>
        LET length == CodeLength(mtCode)
        IN  /\ mtResult.value \in 0..100
            /\ \A c \in 1..(1 + MaxDecisions(length)) :
                  /\ c > mtResult.cyclomatic =>
                        Maintainability(c, length).value <= mtResult.value
                  /\ c < mtResult.cyclomatic =>
                        Maintainability(c, length).value >= mtResult.value

C26_Witness ==
    /\ mtResult.fn = "calculateMaintainabilityIndex"
    /\ mtResult.cyclomatic = 3
    /\ CodeLength(mtCode) > PadLength
    /\ mtResult.value \in 1..91

\* C27 (as stated): a handled run_tests event is answered by exactly one of
\* test_results and error, a processed code_change event by exactly one of
\* code_analysis and error
C27_ExactlyOneAnswer ==
    /\ done.event = "run_tests" =>
          Cardinality(done.emitted \cap {"test_results", "error"}) = 1
    /\ (done.event = "code_change" /\ done.emitted # {}) =>
          Cardinality(done.emitted \cap {"code_analysis", "error"}) = 1

\* C28 (as stated): while less than two minutes have passed since the most
\* recent dispatch the cooldown flag is set
C28_CooldownOutlastsEarlierTimers ==
    (ui.lastAI # NoTime /\ clk - ui.lastAI < TwoMinutes) => ui.cooldown

\* the execution of child c has not settled and its events are still to come
InFlight(c) == c \in procs /\ Pending(c)

\* C29 (as stated): two executions in flight at the same time have different
\* temporary files, and the file of an execution in flight exists
C29_TempPathsDistinct ==
    \A c \in procs :
        InFlight(c) =>
            /\ c.src \in files
            /\ \A d \in procs : (InFlight(d) /\ d.run # c.run) => d.src # c.src

\* q is x / y rounded to the nearest integer, halves upwards
IsRounded(q, x, y) ==
    2 * q * y <= 2 * x + y /\ 2 * x + y < 2 * (q + 1) * y

\* C30: every submission of the session has passedTests + failedTests =
\* totalTests = the number of its test results and the score
\* round(100 * passedTests / totalTests) in 0..100, 0 without tests; the
\* first problem's attempts are the number of submissions; the session's
\* overallScore is the rounded mean of the submissions' scores
C30_SubmissionsConsistent ==
    LET n == Len(session.codeSubmissions)
        scores == [i \in 1..n |-> session.codeSubmissions[i].overallScore]
    IN  /\ \A i \in 1..n :
              LET s == session.codeSubmissions[i]
              IN  /\ s.passedTests + s.failedTests = s.totalTests
                  /\ s.totalTests = Len(s.testResults)
                  /\ s.passedTests = Cardinality({j \in 1..Len(s.testResults) :
                                                     s.testResults[j]})
                  /\ s.overallScore \in 0..100
                  /\ IF s.totalTests = 0 THEN s.overallScore = 0
                     ELSE IsRounded(s.overallScore, 100 * s.passedTests, s.totalTests)
        /\ session.problems[1].attempts = n
        /\ IF n = 0 THEN session.overallScore = 0
           ELSE IsRounded(session.overallScore, SumSeq(scores), n)

C30_Witness ==
    /\ Len(session.codeSubmissions) = 2
    /\ session.codeSubmissions[1].overallScore = 67
    /\ session.codeSubmissions[2].overallScore = 100
    /\ session.overallScore = 84
    /\ session.problems[1].attempts = 2

====
